---- MODULE Spec2Model ----
(***************************************************************************)
(* Model of the schedule extraction engine of the schedule bot             *)
(* (schedule_parser.py) and of the bot handlers that read it (bot.py).     *)
(*                                                                         *)
(* A Python str is a sequence of one-character tokens: <<"8",".","3">> is   *)
(* the str '8.3'.  Characters outside ASCII are written as named tokens    *)
(* ("CLOCK" is U+23F0, "BOOKS" is U+1F4DA).  A DataFrame is a record        *)
(* [nrows, ncols, cells] whose cells maps the positions that hold a str;   *)
(* every other position inside the frame holds NaN.                        *)
(***************************************************************************)
EXTENDS Integers, Sequences, FiniteSets, TLC

VARIABLES
    df,               \* ScheduleParser.df: the grid read by the last parse()
    groups,           \* ScheduleParser.groups: sequence of [name, column]
    groups_row,       \* ScheduleParser.groups_row: index of the header row
    schedule,         \* ScheduleParser.schedule: name -> day -> blocks
    ret,              \* what the most recent parse() returned
    before,           \* the parser's fields when that parse() was called
    pc,               \* the bot: "start" until post_init has run
    reply,            \* the bot: the value the most recent query returned
    row_idx,          \* day walk: number of rows of the range already read
    day_rows,         \* day walk: the cells read so far, [time, lesson]
    last_time,        \* day walk: local last_time
    last_lesson,      \* day walk: local last_lesson
    lessons_by_time,  \* day walk: local dict, in insertion order
    day_blocks,       \* day walk: the blocks appended for the day
    value_str,        \* header cell: the str of the cell being examined
    is_group,         \* header cell: whether the cell was taken as a group
    input_file,       \* ExcelMerger: the sheet stored in input_file
    output_file,      \* ExcelMerger: the sheet stored in output_file
    merge_ret,        \* ExcelMerger: what merge_cells() returned
    registry,         \* UserDatabase: "sqlite" (user_database.py) or "json" (database.py)
    users,            \* UserDatabase: the records stored under db_path
    conv,             \* ConversationHandler: the state of each user's conversation
    event             \* the most recent registry call, handler or tick, and its result

vars == <<df, groups, groups_row, schedule, ret, before, pc, reply,
          row_idx, day_rows, last_time, last_lesson, lessons_by_time, day_blocks,
          value_str, is_group, input_file, output_file, merge_ret,
          registry, users, conv, event>>

parserVars == <<df, groups, groups_row, schedule, ret, before>>
botVars == <<pc, reply>>
walkVars == <<row_idx, day_rows, last_time, last_lesson, lessons_by_time, day_blocks>>
cellVars == <<value_str, is_group>>
mergerVars == <<input_file, output_file, merge_ret>>
registryVars == <<registry, users, conv, event>>

----------------------------------------------------------------------------
(* Values that are not str: pandas NaN and Python None.                    *)

NaN == <<"<NaN>">>
None == <<"<None>">>

isna(v) == v = NaN \/ v = None
notna(v) == ~isna(v)

----------------------------------------------------------------------------
(* str operations used by the parser.                                      *)

Whitespace == {" ", "\n", "\t"}
Digits == {"0", "1", "2", "3", "4", "5", "6", "7", "8", "9"}

RECURSIVE lstrip(_)
lstrip(s) == IF s # <<>> /\ Head(s) \in Whitespace THEN lstrip(Tail(s)) ELSE s

RECURSIVE rstrip(_)
rstrip(s) ==
    IF s # <<>> /\ s[Len(s)] \in Whitespace
    THEN rstrip(SubSeq(s, 1, Len(s) - 1))
    ELSE s

strip(s) == rstrip(lstrip(s))

contains(s, c) == \E i \in 1..Len(s) : s[i] = c

\* s.split(sep): the parts of s between the occurrences of the character sep
RECURSIVE split(_, _)
split(s, sep) ==
    IF ~contains(s, sep)
    THEN <<s>>
    ELSE LET i == CHOOSE k \in 1..Len(s) :
                      s[k] = sep /\ \A j \in 1..(k - 1) : s[j] # sep
         IN <<SubSeq(s, 1, i - 1)>> \o split(SubSeq(s, i + 1, Len(s)), sep)

DigitVal(c) ==
    CASE c = "0" -> 0 [] c = "1" -> 1 [] c = "2" -> 2 [] c = "3" -> 3
      [] c = "4" -> 4 [] c = "5" -> 5 [] c = "6" -> 6 [] c = "7" -> 7
      [] c = "8" -> 8 [] c = "9" -> 9

RECURSIVE DecVal(_)
DecVal(s) ==
    IF s = <<>> THEN 0
    ELSE 10 * DecVal(SubSeq(s, 1, Len(s) - 1)) + DigitVal(s[Len(s)])

\* int(s): surrounding whitespace is dropped, one sign is allowed, the rest
\* must be one or more decimal digits; anything else raises ValueError.
int(s) ==
    LET t == strip(s)
        signed == t # <<>> /\ Head(t) \in {"+", "-"}
        body == IF signed THEN Tail(t) ELSE t
        good == body # <<>> /\ \A i \in 1..Len(body) : body[i] \in Digits
    IN [ok |-> good,
        val |-> IF ~good THEN 0
                ELSE IF signed /\ Head(t) = "-" THEN 0 - DecVal(body)
                ELSE DecVal(body)]

\* code points, for the comparison of str values
Ord(c) ==
    CASE c = "\t" -> 9 [] c = "\n" -> 10 [] c = " " -> 32
      [] c = "(" -> 40 [] c = ")" -> 41 [] c = "+" -> 43 [] c = "-" -> 45
      [] c = "." -> 46 [] c = ":" -> 58
      [] c \in Digits -> 48 + DigitVal(c)
      [] c = "A" -> 65 [] c = "B" -> 66 [] c = "C" -> 67 [] c = "M" -> 77
      [] c = "a" -> 97 [] c = "b" -> 98 [] c = "h" -> 104 [] c = "n" -> 110
      [] c = "r" -> 114 [] c = "t" -> 116
      [] c = "CLOCK" -> 9200 [] c = "BOOKS" -> 128218

\* s < t for two str
RECURSIVE StrLess(_, _)
StrLess(s, t) ==
    IF t = <<>> THEN FALSE
    ELSE IF s = <<>> THEN TRUE
    ELSE IF Head(s) # Head(t) THEN Ord(Head(s)) < Ord(Head(t))
    ELSE StrLess(Tail(s), Tail(t))

\* sorted(S) for a set of str
RECURSIVE sorted_set(_)
sorted_set(S) ==
    IF S = {} THEN <<>>
    ELSE LET m == CHOOSE x \in S : \A y \in S \ {x} : StrLess(x, y)
         IN <<m>> \o sorted_set(S \ {m})

----------------------------------------------------------------------------
(* The grammars of the parser.                                             *)

\* the grammar with the length bound off by one
_is_time_from_7(value) ==
    /\ contains(value, "-")
    /\ Len(value) >= 7
    /\ (contains(value, ".") \/ contains(value, ":"))

_is_time(value) ==
    /\ contains(value, "-")
    /\ Len(value) >= 8
    /\ (contains(value, ".") \/ contains(value, ":"))

\* the key with ':' read as '.': hours and minutes of both spellings
_time_to_minutes_colon(time_str) ==
    LET start_time == strip(split(time_str, "-")[1])
        dotted == [i \in 1..Len(start_time) |->
                      IF start_time[i] = ":" THEN "." ELSE start_time[i]]
        parts == split(dotted, ".")
    IN IF Len(parts) # 2 THEN 0
       ELSE LET hours == int(parts[1])
                minutes == int(parts[2])
            IN IF hours.ok /\ minutes.ok
               THEN hours.val * 60 + minutes.val
               ELSE 0

_time_to_minutes(time_str) ==
    LET start_time == strip(split(time_str, "-")[1])
        parts == split(start_time, ".")
    IN IF Len(parts) # 2 THEN 0
       ELSE LET hours == int(parts[1])
                minutes == int(parts[2])
            IN IF hours.ok /\ minutes.ok
               THEN hours.val * 60 + minutes.val
               ELSE 0

\* str.upper() on one character
upper(c) ==
    CASE c = "a" -> "A" [] c = "b" -> "B" [] c = "h" -> "H" [] c = "n" -> "N"
      [] c = "r" -> "R" [] c = "t" -> "T"
      [] c = "cyr_i" -> "CYR_I" [] c = "cyr_n" -> "CYR_N" [] c = "cyr_f" -> "CYR_F"
      [] c = "cyr_o" -> "CYR_O" [] c = "cyr_r" -> "CYR_R" [] c = "cyr_m" -> "CYR_M"
      [] c = "cyr_a" -> "CYR_A" [] c = "cyr_t" -> "CYR_T" [] c = "cyr_k" -> "CYR_K"
      [] OTHER -> c

str_upper(s) == [i \in 1..Len(s) |-> upper(s[i])]

\* sub in s, for two str
is_substring(sub, s) ==
    \E i \in 0..(Len(s) - Len(sub)) : SubSeq(s, i + 1, i + Len(sub)) = sub

INFORMATIKA ==
    <<"CYR_I", "CYR_N", "CYR_F", "CYR_O", "CYR_R", "CYR_M",
      "CYR_A", "CYR_T", "CYR_I", "CYR_K", "CYR_A">>

\* str.isdigit() on one character: the decimal digits and the characters
\* whose Unicode property is Digit, as "SUP2" (U+00B2, superscript two)
isdigit(c) == c \in Digits \cup {"SUP2"}

_is_group_name(value) ==
    IF is_substring(INFORMATIKA, str_upper(value)) \/ Len(value) < 5
    THEN FALSE
    ELSE /\ contains(value, "-")
         /\ contains(value, "(")
         /\ contains(value, ")")
         /\ isdigit(value[1])

----------------------------------------------------------------------------
(* The walk over one day range of one group (the body of the loops of      *)
(* _parse_schedule).  lessons_by_time is a dict: its keys keep the order   *)
(* in which they were inserted, so it is a sequence of [time, lessons].    *)

dict_keys(d) == [i \in 1..Len(d) |-> d[i].time]

dict_has(d, k) == \E i \in 1..Len(d) : d[i].time = k

dict_get(d, k) == d[CHOOSE i \in 1..Len(d) : d[i].time = k].lessons

\* a new entry for every lesson, whether or not the key is there
dict_add_entry(d, k, x) == Append(d, [time |-> k, lessons |-> {x}])

\* d[k].add(x), after d[k] = set() when k is a new key
dict_add(d, k, x) ==
    IF dict_has(d, k)
    THEN [i \in 1..Len(d) |->
             IF d[i].time = k
             THEN [time |-> k, lessons |-> d[i].lessons \cup {x}]
             ELSE d[i]]
    ELSE Append(d, [time |-> k, lessons |-> {x}])

WalkStart == [last_time |-> None, last_lesson |-> None, lessons_by_time |-> <<>>]

\* the pass that keeps last_lesson when the time value is a valid label
RowStep_keeping_last(st, time_cell, lesson_value) ==
    LET time_value == IF isna(time_cell) THEN st.last_time ELSE time_cell
    IN IF notna(time_value) /\ notna(lesson_value)
       THEN LET time_str == strip(time_value)
                lesson_str == strip(lesson_value)
                lt == IF _is_time(time_str) THEN time_str ELSE st.last_time
                ll == st.last_lesson
            IN IF /\ _is_time(time_str)
                  /\ lesson_str # <<>>
                  /\ lesson_str # <<"n", "a", "n">>
                  /\ Len(lesson_str) > 2
                  /\ lesson_str # ll
               THEN [last_time |-> lt,
                     last_lesson |-> lesson_str,
                     lessons_by_time |-> dict_add(st.lessons_by_time, time_str, lesson_str)]
               ELSE [last_time |-> lt,
                     last_lesson |-> ll,
                     lessons_by_time |-> st.lessons_by_time]
       ELSE st

\* the pass that files every lesson text that is not empty
RowStep_any_lesson(st, time_cell, lesson_value) ==
    LET time_value == IF isna(time_cell) THEN st.last_time ELSE time_cell
    IN IF notna(time_value) /\ notna(lesson_value)
       THEN LET time_str == strip(time_value)
                lesson_str == strip(lesson_value)
                lt == IF _is_time(time_str) THEN time_str ELSE st.last_time
                ll == IF _is_time(time_str) THEN None ELSE st.last_lesson
            IN IF /\ _is_time(time_str)
                  /\ lesson_str # <<>>
                  /\ lesson_str # ll
               THEN [last_time |-> lt,
                     last_lesson |-> lesson_str,
                     lessons_by_time |-> dict_add(st.lessons_by_time, time_str, lesson_str)]
               ELSE [last_time |-> lt,
                     last_lesson |-> ll,
                     lessons_by_time |-> st.lessons_by_time]
       ELSE st

\* one pass of the row loop, given the two cells it reads
RowStep(st, time_cell, lesson_value) ==
    LET time_value == IF isna(time_cell) THEN st.last_time ELSE time_cell
    IN IF notna(time_value) /\ notna(lesson_value)
       THEN LET time_str == strip(time_value)
                lesson_str == strip(lesson_value)
                lt == IF _is_time(time_str) THEN time_str ELSE st.last_time
                ll == IF _is_time(time_str) THEN None ELSE st.last_lesson
            IN IF /\ _is_time(time_str)
                  /\ lesson_str # <<>>
                  /\ lesson_str # <<"n", "a", "n">>
                  /\ Len(lesson_str) > 2
                  /\ lesson_str # ll
               THEN [last_time |-> lt,
                     last_lesson |-> lesson_str,
                     lessons_by_time |-> dict_add(st.lessons_by_time, time_str, lesson_str)]
               ELSE [last_time |-> lt,
                     last_lesson |-> ll,
                     lessons_by_time |-> st.lessons_by_time]
       ELSE st

\* sorted(keys, key=_time_to_minutes): a stable sort, by insertion
RECURSIVE insert_by_minutes(_, _)
insert_by_minutes(sorted, t) ==
    IF sorted = <<>> THEN <<t>>
    ELSE IF _time_to_minutes(sorted[Len(sorted)]) <= _time_to_minutes(t)
    THEN Append(sorted, t)
    ELSE Append(insert_by_minutes(SubSeq(sorted, 1, Len(sorted) - 1), t),
                sorted[Len(sorted)])

\* the keys left in the order of the dict
sorted_by_insertion(keys) == keys

RECURSIVE sorted_by_minutes(_)
sorted_by_minutes(keys) ==
    IF keys = <<>> THEN <<>>
    ELSE insert_by_minutes(sorted_by_minutes(SubSeq(keys, 1, Len(keys) - 1)),
                           keys[Len(keys)])

\* the block of one time slot: a clock line, then one line for each lesson
RECURSIVE lesson_lines(_)
lesson_lines(ls) ==
    IF ls = <<>> THEN <<>>
    ELSE <<"\n", "BOOKS", " ">> \o Head(ls) \o lesson_lines(Tail(ls))

\* the block with the lessons of the slot in descending order
formatted_descending(time_str, lessons) ==
    LET ls == sorted_set(lessons)
    IN <<"CLOCK", " ">> \o time_str
           \o lesson_lines([i \in 1..Len(ls) |-> ls[Len(ls) + 1 - i]])

formatted(time_str, lessons) ==
    <<"CLOCK", " ">> \o time_str \o lesson_lines(sorted_set(lessons))

\* the blocks appended to schedule[group_name][day_name]
RenderDay(d) ==
    LET sorted_times == sorted_by_minutes(dict_keys(d))
    IN [i \in 1..Len(sorted_times) |->
           formatted(sorted_times[i], dict_get(d, sorted_times[i]))]

----------------------------------------------------------------------------
(* The DataFrame and the two passes of parse().                            *)

\* df.iloc[r, c] raises IndexError outside the frame
iloc_raises(d, r, c) == r >= d.nrows \/ c >= d.ncols

iloc(d, r, c) == IF <<r, c>> \in DOMAIN d.cells THEN d.cells[<<r, c>>] ELSE NaN

HeaderWindow == 30

FirstGroupColumn == 2

TimeColumn == 1

Min(a, b) == IF a < b THEN a ELSE b

\* groups_in_row of one row: the qualifying cells, by increasing column
RECURSIVE groups_in_row(_, _, _)
groups_in_row(d, r, col_idx) ==
    IF col_idx >= d.ncols THEN <<>>
    ELSE LET value == iloc(d, r, col_idx)
             here == IF notna(value) /\ _is_group_name(strip(value))
                     THEN <<[name |-> strip(value), column |-> col_idx]>>
                     ELSE <<>>
         IN here \o groups_in_row(d, r, col_idx + 1)

\* the row loop with a row accepted from one qualifying cell on
RECURSIVE header_scan_any(_, _)
header_scan_any(d, r) ==
    IF r >= Min(HeaderWindow, d.nrows)
    THEN [found |-> FALSE, groups |-> <<>>, groups_row |-> 0 - 1]
    ELSE LET groups_here == groups_in_row(d, r, FirstGroupColumn)
         IN IF Len(groups_here) >= 1
            THEN [found |-> TRUE, groups |-> groups_here, groups_row |-> r]
            ELSE header_scan_any(d, r + 1)

\* the row loop of _find_and_extract_groups from row r on: the first row
\* with two or more qualifying cells, if the loop reaches its break
RECURSIVE header_scan(_, _)
header_scan(d, r) ==
    IF r >= Min(HeaderWindow, d.nrows)
    THEN [found |-> FALSE, groups |-> <<>>, groups_row |-> 0 - 1]
    ELSE LET groups_here == groups_in_row(d, r, FirstGroupColumn)
         IN IF Len(groups_here) >= 2
            THEN [found |-> TRUE, groups |-> groups_here, groups_row |-> r]
            ELSE header_scan(d, r + 1)

DayNames ==
    <<"ponedelnik", "vtornik", "sreda", "chetverg", "pyatnitsa", "subbota",
      "voskresenye">>

\* days_ranges, in the order of the dict
days_ranges ==
    <<[day |-> "ponedelnik", start_row |-> 18, end_row |-> 32],
      [day |-> "vtornik", start_row |-> 33, end_row |-> 47],
      [day |-> "sreda", start_row |-> 48, end_row |-> 62],
      [day |-> "chetverg", start_row |-> 63, end_row |-> 78],
      [day |-> "pyatnitsa", start_row |-> 79, end_row |-> 93],
      [day |-> "subbota", start_row |-> 94, end_row |-> 108]>>

DaySet == {DayNames[i] : i \in 1..Len(DayNames)}

EmptyWeek == [d \in DaySet |-> <<>>]

\* the row loop that takes the lesson of the next column for a blank cell
RECURSIVE WalkRows_next_column(_, _, _, _, _)
WalkRows_next_column(d, col_idx, r, end_row, st) ==
    IF r > end_row THEN [raised |-> FALSE, st |-> st]
    ELSE IF iloc_raises(d, r, TimeColumn) \/ iloc_raises(d, r, col_idx)
    THEN [raised |-> TRUE, st |-> st]
    ELSE WalkRows_next_column(d, col_idx, r + 1, end_row,
             RowStep(st, iloc(d, r, TimeColumn),
                     IF isna(iloc(d, r, col_idx)) /\ col_idx + 1 < d.ncols
                     THEN iloc(d, r, col_idx + 1)
                     ELSE iloc(d, r, col_idx)))

\* the row loop of one day: the walk state after the range, or raised
RECURSIVE WalkRows(_, _, _, _, _)
WalkRows(d, col_idx, r, end_row, st) ==
    IF r > end_row THEN [raised |-> FALSE, st |-> st]
    ELSE IF iloc_raises(d, r, TimeColumn) \/ iloc_raises(d, r, col_idx)
    THEN [raised |-> TRUE, st |-> st]
    ELSE WalkRows(d, col_idx, r + 1, end_row,
                  RowStep(st, iloc(d, r, TimeColumn), iloc(d, r, col_idx)))

\* schedule with schedule[name] set to week
put(sched, name, week) ==
    [n \in DOMAIN sched \cup {name} |-> IF n = name THEN week ELSE sched[n]]

\* a week kept when the group already has one, instead of a fresh one
reset_week_keep(sched, name) ==
    IF name \in DOMAIN sched THEN sched ELSE put(sched, name, EmptyWeek)

\* a fresh week of the six days that have a row range
reset_week_ranges(sched, name) ==
    put(sched, name, [d \in {days_ranges[k].day : k \in 1..Len(days_ranges)} |-> <<>>])

\* self.schedule[group_name] = {seven empty days}
reset_week(sched, name) == put(sched, name, EmptyWeek)

----------------------------------------------------------------------------
(* The spreadsheets the bot is started on.                                 *)

GA == <<"1", "-", "A", "(", "1", ")">>
GB == <<"2", "-", "B", "(", "2", ")">>
GC == <<"3", "-", "C", "(", "3", ")">>
GX == <<"9", "-", "C", "(", "9", ")">>

T830 == <<"8", ".", "3", "0", "-", "1", "0", ".", "0", "0">>
T1010 == <<"1", "0", ".", "1", "0", "-", "1", "1", ".", "4", "0">>
T830c == <<"8", ":", "3", "0", "-", "1", "0", ":", "0", "0">>
T830b == <<"8", ".", "3", "0", "-", "9", ".", "1", "5">>
TDots == <<".", "3", "0", "-", "1", "0", ".", "0", "0">>
TBad == <<"8", ".", "3", "0", "-", "1", "0">>

Math == <<"M", "a", "t", "h">>
Art == <<"A", "r", "t">>
Short == <<"a", "b">>
NanText == <<" ", "n", "a", "n">>

ShortRows == 40
FullRows == 109
NCols == 5

\* row 0 is the header; row 5 holds three tokens, row 0 two more in columns 0, 1
HeaderFirst ==
    (<<0, 0>> :> GX) @@ (<<0, 1>> :> GC) @@ (<<0, 2>> :> GA) @@ (<<0, 3>> :> GB)
    @@ (<<5, 2>> :> GC) @@ (<<5, 3>> :> GX) @@ (<<5, 4>> :> GA)

\* row 29 is the header; row 3 holds three tokens, one of them from column 2 on
HeaderLast ==
    (<<3, 0>> :> GC) @@ (<<3, 1>> :> GX) @@ (<<3, 2>> :> GB)
    @@ (<<HeaderWindow - 1, 2>> :> GC) @@ (<<HeaderWindow - 1, 3>> :> GA)

\* no header: two tokens in columns 0, 1 of row 2, two tokens on row 30
HeaderBelow ==
    (<<2, 0>> :> GA) @@ (<<2, 1>> :> GB)
    @@ (<<HeaderWindow, 2>> :> GA) @@ (<<HeaderWindow, 3>> :> GB)

\* row 0 is the header; the cell of column 2 has its ')' before its '('
GD == <<"4", "-", "D", ")", "(">>

HeaderOdd == (<<0, 2>> :> GD) @@ (<<0, 3>> :> GB)

BodyA ==
    (<<18, 1>> :> T1010) @@ (<<18, 2>> :> Math) @@ (<<18, 3>> :> Art)
    @@ (<<19, 2>> :> Math) @@ (<<19, 3>> :> Math)
    @@ (<<20, 1>> :> T830) @@ (<<20, 2>> :> Art)
    @@ (<<21, 3>> :> Art)

BodyB ==
    (<<33, 1>> :> T830c) @@ (<<33, 2>> :> Art) @@ (<<33, 3>> :> Math)
    @@ (<<34, 1>> :> T830) @@ (<<34, 2>> :> Math)

\* the frame of nrows rows that holds the cells of a header and a body
Frame(nrows, header, body) ==
    [nrows |-> nrows, ncols |-> NCols,
     cells |-> [p \in {q \in DOMAIN (header @@ body) : q[1] < nrows} |->
                   (header @@ body)[p]]]

\* the frames pd.read_excel can return
Grids ==
    {Frame(nrows, header, body) :
        nrows \in {ShortRows, FullRows},
        header \in {HeaderFirst, HeaderLast, HeaderBelow},
        body \in {BodyA, BodyB}}

\* a frame whose header row holds the cell with ')' before '('
OddGrid == Frame(FullRows, HeaderOdd, BodyA)

\* row 0 is the header; columns 2 and 3 carry one name
HeaderTwin == (<<0, 2>> :> GA) @@ (<<0, 3>> :> GA) @@ (<<0, 4>> :> GB)

\* a frame whose header row holds one group name twice
TwinGrid == Frame(FullRows, HeaderTwin, BodyA)

\* BodyA with other lessons in column 3, and lessons in column 4
BodyA2 ==
    (<<19, 3>> :> Art) @@ (<<20, 3>> :> Math) @@ (<<22, 3>> :> Math)
    @@ (<<18, 4>> :> Math) @@ BodyA

\* a frame that differs from the HeaderFirst, BodyA frame in columns 3, 4
OtherGrid == Frame(FullRows, HeaderFirst, BodyA2)

\* the frames that only the start of the bot meets
ExtraGrids == {OddGrid, TwinGrid, OtherGrid}

NoFrame == [nrows |-> 0, ncols |-> 0, cells |-> <<>>]

\* no sheet: the file does not exist or is not a workbook
NoSheet == [max_row |-> 0 - 1, max_column |-> 0 - 1, cells |-> <<>>, merged |-> <<>>]

----------------------------------------------------------------------------
(* The two passes on the frames of the model.                              *)

\* header_scan on the frames of the model, computed once
HeaderTable == [d \in Grids \cup ExtraGrids |-> header_scan(d, 0)]

\* the values of (groups, groups_row) after _find_and_extract_groups: the
\* fields are assigned only when the loop reaches its break
_find_and_extract_groups(d, old_groups, old_row) ==
    IF HeaderTable[d].found
    THEN [groups |-> HeaderTable[d].groups, groups_row |-> HeaderTable[d].groups_row]
    ELSE [groups |-> old_groups, groups_row |-> old_row]

\* the row loop of day number k of days_ranges
walk_day(d, col_idx, k) ==
    WalkRows(d, col_idx, days_ranges[k].start_row, days_ranges[k].end_row, WalkStart)

\* walk_day on the frames of the model, computed once
WalkTable ==
    [d \in Grids \cup ExtraGrids |->
        [col_idx \in FirstGroupColumn..(NCols - 1) |->
            [k \in 1..Len(days_ranges) |-> walk_day(d, col_idx, k)]]]

day_walk(d, col_idx, k) == WalkTable[d][col_idx][k]

\* the day loop of one group, from day number k on
RECURSIVE ParseDays(_, _, _, _, _)
ParseDays(d, name, col_idx, k, sched) ==
    IF k > Len(days_ranges) THEN [raised |-> FALSE, schedule |-> sched]
    ELSE LET rng == days_ranges[k]
             w == day_walk(d, col_idx, k)
         IN IF w.raised
            THEN [raised |-> TRUE, schedule |-> sched]
            ELSE ParseDays(d, name, col_idx, k + 1,
                     put(sched, name,
                         [sched[name] EXCEPT
                             ![rng.day] = @ \o RenderDay(w.st.lessons_by_time)]))

\* the group loop that skips a name that already has a week
RECURSIVE _parse_schedule_first(_, _, _, _)
_parse_schedule_first(d, gs, g, sched) ==
    IF g > Len(gs) THEN [raised |-> FALSE, schedule |-> sched]
    ELSE IF gs[g].name \in DOMAIN sched
    THEN _parse_schedule_first(d, gs, g + 1, sched)
    ELSE LET r == ParseDays(d, gs[g].name, gs[g].column, 1,
                            reset_week(sched, gs[g].name))
         IN IF r.raised THEN r
            ELSE _parse_schedule_first(d, gs, g + 1, r.schedule)

\* _parse_schedule from group number g on: the schedule it leaves, and
\* whether an exception left the loops
RECURSIVE _parse_schedule(_, _, _, _)
_parse_schedule(d, gs, g, sched) ==
    IF g > Len(gs) THEN [raised |-> FALSE, schedule |-> sched]
    ELSE LET r == ParseDays(d, gs[g].name, gs[g].column, 1,
                            reset_week(sched, gs[g].name))
         IN IF r.raised THEN r
            ELSE _parse_schedule(d, gs, g + 1, r.schedule)

----------------------------------------------------------------------------
(* The queries of the store.                                               *)

get_groups(gs) == [i \in 1..Len(gs) |-> gs[i].name]

get_schedule_for_group(sched, group) ==
    IF group \in DOMAIN sched THEN sched[group] ELSE <<>>

\* str.lower() on a day name
day_lower(day) ==
    CASE day = "Ponedelnik" -> "ponedelnik"
      [] day = "PONEDELNIK" -> "ponedelnik"
      [] day = "Voskresenye" -> "voskresenye"
      [] OTHER -> day

get_schedule_for_day(sched, group, day) ==
    LET week == get_schedule_for_group(sched, group)
    IN IF day_lower(day) \in DOMAIN week THEN week[day_lower(day)] ELSE <<>>

\* day_display.get(day_lower), as it is written into an f-string
day_display(day) ==
    CASE day = "ponedelnik" -> <<"PIN", " ", "PONEDELNIK">>
      [] day = "vtornik" -> <<"PIN", " ", "VTORNIK">>
      [] day = "sreda" -> <<"PIN", " ", "SREDA">>
      [] day = "chetverg" -> <<"PIN", " ", "CHETVERG">>
      [] day = "pyatnitsa" -> <<"PIN", " ", "PYATNITSA">>
      [] day = "subbota" -> <<"PIN", " ", "SUBBOTA">>
      [] day = "voskresenye" -> <<"PIN", " ", "VOSKRESENYE">>
      [] OTHER -> <<"N", "o", "n", "e">>

NoLessons == <<"NET ZANYATIY">>

RECURSIVE day_lines(_)
day_lines(lessons) ==
    IF lessons = <<>> THEN <<>>
    ELSE <<"\n">> \o Head(lessons) \o <<"\n">> \o day_lines(Tail(lessons))

\* the rendering without the branch for a day without lessons
format_day_schedule_loop(sched, group, day) ==
    LET lessons == get_schedule_for_day(sched, group, day)
    IN day_display(day_lower(day)) \o <<"\n">> \o day_lines(lessons)

format_day_schedule(sched, group, day) ==
    LET lessons == get_schedule_for_day(sched, group, day)
    IN IF lessons = <<>>
       THEN day_display(day_lower(day)) \o <<"\n">> \o NoLessons
       ELSE day_display(day_lower(day)) \o <<"\n">> \o day_lines(lessons)

SeparatorWidth == 40

\* the list of days with Sunday
WeekDaysSunday ==
    <<"ponedelnik", "vtornik", "sreda", "chetverg", "pyatnitsa", "subbota",
      "voskresenye">>

WeekDays == <<"ponedelnik", "vtornik", "sreda", "chetverg", "pyatnitsa", "subbota">>

RECURSIVE week_days(_, _, _)
week_days(sched, group, k) ==
    IF k > Len(WeekDays) THEN <<>>
    ELSE format_day_schedule(sched, group, WeekDays[k])
         \o <<"\n">> \o [i \in 1..SeparatorWidth |-> "BOX"] \o <<"\n">>
         \o week_days(sched, group, k + 1)

get_schedule_for_week(sched, group) ==
    <<"CALENDAR", " ", "RASPISANIE GRUPPY", " ">> \o group
    \o <<" ", "NA NEDELYU", ":", "\n", "\n">> \o week_days(sched, group, 1)

----------------------------------------------------------------------------
(* The arguments of the queries.                                          *)

QueryGroups == {GA, GB, GC, GX}

QueryDays == DaySet \cup {"Ponedelnik", "segodnya"}

----------------------------------------------------------------------------
(* The parser object under any sequence of parse() calls.                  *)

Unreadable == [nrows |-> 0 - 1, ncols |-> 0 - 1, cells |-> <<>>]

Files == Grids \cup {Unreadable}

\* the files the bot can find when it starts
StartFiles == Files \cup ExtraGrids

\* no query has returned
NoReply == [op |-> "none", group |-> <<>>, day |-> "", value |-> <<>>]

\* the fields after ScheduleParser.__init__
ParserInit ==
    /\ df = NoFrame
    /\ groups = <<>>
    /\ groups_row = 0 - 1
    /\ schedule = <<>>
    /\ ret = FALSE
    /\ before = [called |-> FALSE, file |-> NoFrame, df |-> NoFrame,
                 groups |-> <<>>, schedule |-> <<>>]

\* the locals of the row loop before the first row of a day
WalkInit ==
    /\ row_idx = 0
    /\ day_rows = <<>>
    /\ last_time = WalkStart.last_time
    /\ last_lesson = WalkStart.last_lesson
    /\ lessons_by_time = WalkStart.lessons_by_time
    /\ day_blocks = <<>>

\* no header cell is being examined
CellInit ==
    /\ value_str = <<>>
    /\ is_group = FALSE

\* the identities of the users who write to the bot
UserIds == {1, 2}

\* the states of the conversation; END is ConversationHandler.END
CHOOSING_GROUP == 1
CHOOSING_ACTION == 2
END == 0 - 1

\* nothing has been called
NoEvent ==
    [op |-> "none", user |-> 0, arg |-> <<>>, read_failed |-> FALSE,
     ret |-> FALSE, prior |-> {}, tried |-> {}, sent |-> {}]

\* the registry the bot imports, empty, and no conversation
RegistryInit ==
    /\ registry = "sqlite"
    /\ users = <<>>
    /\ conv = [u \in UserIds |-> END]
    /\ event = NoEvent

\* no ExcelMerger has run
MergerInit ==
    /\ input_file = NoSheet
    /\ output_file = NoSheet
    /\ merge_ret = FALSE

Init ==
    /\ ParserInit
    /\ pc = "start"
    /\ reply = NoReply
    /\ WalkInit
    /\ CellInit
    /\ MergerInit
    /\ RegistryInit

\* self.df set to None before the file is read
read_excel_reset(f, old_df) ==
    IF f = Unreadable
    THEN [raised |-> TRUE, df |-> NoFrame]
    ELSE [raised |-> FALSE, df |-> f]

\* self.df = pd.read_excel(...): the assignment is not reached when the
\* call raises
read_excel(f, old_df) ==
    IF f = Unreadable
    THEN [raised |-> TRUE, df |-> old_df]
    ELSE [raised |-> FALSE, df |-> f]

\* parse() when the spreadsheet is the file f
parse(f) ==
    /\ before' = [called |-> TRUE, file |-> f, df |-> df,
                  groups |-> groups, schedule |-> schedule]
    /\ IF read_excel(f, df).raised
       THEN /\ ret' = FALSE
            /\ df' = read_excel(f, df).df
            /\ UNCHANGED <<groups, groups_row, schedule>>
       ELSE LET found == _find_and_extract_groups(f, groups, groups_row)
            IN /\ df' = read_excel(f, df).df
               /\ groups' = found.groups
               /\ groups_row' = found.groups_row
               /\ IF found.groups = <<>>
                  THEN /\ schedule' = schedule
                       /\ ret' = FALSE
                  ELSE LET r == _parse_schedule(f, found.groups, 1, schedule)
                       IN /\ schedule' = r.schedule
                          /\ ret' = ~r.raised

Parse(f) ==
    /\ parse(f)
    /\ UNCHANGED botVars
    /\ UNCHANGED walkVars
    /\ UNCHANGED <<cellVars, mergerVars>>
    /\ UNCHANGED registryVars

Next == \E f \in Files : Parse(f)

Spec == Init /\ [][Next]_vars

----------------------------------------------------------------------------
(* The bot: post_init parses once, then the handlers and the notification  *)
(* tick query the parser.                                                  *)

PostInit(f) ==
    /\ pc = "start"
    /\ parse(f)
    /\ pc' = "polling"
    /\ UNCHANGED reply
    /\ UNCHANGED walkVars
    /\ UNCHANGED <<cellVars, mergerVars>>
    /\ UNCHANGED registryVars

\* dict.setdefault in the place of dict.get: a miss stores the default
store_after_setdefault(sched, group) ==
    IF group \in DOMAIN sched THEN sched ELSE put(sched, group, <<>>)

\* self.schedule after self.schedule.get(group, {}): get stores nothing
store_after_get(sched, group) == sched

GetGroups ==
    /\ pc = "polling"
    /\ reply' = [op |-> "get_groups", group |-> <<>>, day |-> "",
                 value |-> get_groups(groups)]
    /\ UNCHANGED pc
    /\ UNCHANGED parserVars
    /\ UNCHANGED walkVars
    /\ UNCHANGED <<cellVars, mergerVars>>
    /\ UNCHANGED registryVars

GetScheduleForGroup(group) ==
    /\ pc = "polling"
    /\ reply' = [op |-> "get_schedule_for_group", group |-> group, day |-> "",
                 value |-> get_schedule_for_group(schedule, group)]
    /\ schedule' = store_after_get(schedule, group)
    /\ UNCHANGED <<pc, df, groups, groups_row, ret, before>>
    /\ UNCHANGED walkVars
    /\ UNCHANGED <<cellVars, mergerVars>>
    /\ UNCHANGED registryVars

GetScheduleForDay(group, day) ==
    /\ pc = "polling"
    /\ reply' = [op |-> "get_schedule_for_day", group |-> group, day |-> day,
                 value |-> get_schedule_for_day(schedule, group, day)]
    /\ schedule' = store_after_get(schedule, group)
    /\ UNCHANGED <<pc, df, groups, groups_row, ret, before>>
    /\ UNCHANGED walkVars
    /\ UNCHANGED <<cellVars, mergerVars>>
    /\ UNCHANGED registryVars

FormatDaySchedule(group, day) ==
    /\ pc = "polling"
    /\ reply' = [op |-> "format_day_schedule", group |-> group, day |-> day,
                 value |-> format_day_schedule(schedule, group, day)]
    /\ schedule' = store_after_get(schedule, group)
    /\ UNCHANGED <<pc, df, groups, groups_row, ret, before>>
    /\ UNCHANGED walkVars
    /\ UNCHANGED <<cellVars, mergerVars>>
    /\ UNCHANGED registryVars

GetScheduleForWeek(group) ==
    /\ pc = "polling"
    /\ reply' = [op |-> "get_schedule_for_week", group |-> group, day |-> "",
                 value |-> get_schedule_for_week(schedule, group)]
    /\ schedule' = store_after_get(schedule, group)
    /\ UNCHANGED <<pc, df, groups, groups_row, ret, before>>
    /\ UNCHANGED walkVars
    /\ UNCHANGED <<cellVars, mergerVars>>
    /\ UNCHANGED registryVars

NextBot ==
    \/ \E f \in StartFiles : PostInit(f)
    \/ GetGroups
    \/ \E group \in QueryGroups : GetScheduleForGroup(group)
    \/ \E group \in QueryGroups, day \in QueryDays : GetScheduleForDay(group, day)
    \/ \E group \in QueryGroups, day \in QueryDays : FormatDaySchedule(group, day)
    \/ \E group \in QueryGroups : GetScheduleForWeek(group)

SpecBot == Init /\ [][NextBot]_vars

----------------------------------------------------------------------------
(* The walk over one day range, one row at a time: the cells of the time   *)
(* column and of the group's column are the inputs.                        *)

WalkLen == 3

TimeCells == {NaN, T830, T1010, T830c, T830b, TDots, TBad}

LessonCells == {NaN, Math, Short, NanText}

InitWalk ==
    /\ ParserInit
    /\ pc = "rows"
    /\ reply = NoReply
    /\ WalkInit
    /\ CellInit
    /\ MergerInit
    /\ RegistryInit

\* one pass of the row loop on a row that holds the two cells
WalkRow(time_cell, lesson_cell) ==
    /\ pc = "rows"
    /\ row_idx < WalkLen
    /\ LET st == RowStep([last_time |-> last_time, last_lesson |-> last_lesson,
                          lessons_by_time |-> lessons_by_time],
                         time_cell, lesson_cell)
       IN /\ last_time' = st.last_time
          /\ last_lesson' = st.last_lesson
          /\ lessons_by_time' = st.lessons_by_time
    /\ row_idx' = row_idx + 1
    /\ day_rows' = Append(day_rows, [time |-> time_cell, lesson |-> lesson_cell])
    /\ UNCHANGED <<pc, day_blocks, reply>>
    /\ UNCHANGED parserVars
    /\ UNCHANGED <<cellVars, mergerVars>>
    /\ UNCHANGED registryVars

\* after the last row: the slots are sorted and rendered
WalkRender ==
    /\ pc = "rows"
    /\ row_idx = WalkLen
    /\ day_blocks' = RenderDay(lessons_by_time)
    /\ pc' = "done"
    /\ UNCHANGED <<row_idx, day_rows, last_time, last_lesson, lessons_by_time, reply>>
    /\ UNCHANGED parserVars
    /\ UNCHANGED <<cellVars, mergerVars>>
    /\ UNCHANGED registryVars

NextWalk ==
    \/ \E time_cell \in TimeCells, lesson_cell \in LessonCells :
           WalkRow(time_cell, lesson_cell)
    \/ WalkRender

SpecWalk == InitWalk /\ [][NextWalk]_vars

----------------------------------------------------------------------------
(* The same walk over a day whose slots hold several lessons: two lessons, *)
(* one of them also written with a leading blank, under labels of which    *)
(* two start at the same minute.                                           *)

ArtPad == <<" ", "A", "r", "t">>

DayTimeCells == {NaN, T830, T830b, T1010}

DayLessonCells == {NaN, Math, Art, ArtPad}

NextDay ==
    \/ \E time_cell \in DayTimeCells, lesson_cell \in DayLessonCells :
           WalkRow(time_cell, lesson_cell)
    \/ WalkRender

SpecDay == InitWalk /\ [][NextDay]_vars

----------------------------------------------------------------------------
(* The same walk over the cells that decide what the locals hold: two      *)
(* labels and a text outside the grammar, a lesson and two texts that the  *)
(* lesson filter turns away.                                               *)

LocalsTimeCells == {NaN, T830, T1010, TBad}

LocalsLessonCells == {NaN, Math, Short, NanText}

NextLocals ==
    \/ \E time_cell \in LocalsTimeCells, lesson_cell \in LocalsLessonCells :
           WalkRow(time_cell, lesson_cell)
    \/ WalkRender

SpecLocals == InitWalk /\ [][NextLocals]_vars

----------------------------------------------------------------------------
(* One cell of a header row: the cell is any str put together from the      *)
(* pieces below, and the column loop of _find_and_extract_groups decides    *)
(* whether it is a group.                                                   *)

MaxPieces == 5

informatika ==
    <<"cyr_i", "CYR_N", "cyr_f", "cyr_o", "CYR_R", "cyr_m",
      "cyr_a", "cyr_t", "cyr_i", "cyr_k", "CYR_A">>

Pieces ==
    {<<"1">>, <<"-">>, <<"(">>, <<")">>, <<"A">>, <<" ">>, <<"SUP2">>, informatika}

\* the number of pieces of a cell: the long piece is the one with "cyr_k"
PieceCount(s) ==
    Len(s) - (Len(informatika) - 1) * Cardinality({i \in 1..Len(s) : s[i] = "cyr_k"})

InitCell ==
    /\ ParserInit
    /\ pc = "cell"
    /\ reply = NoReply
    /\ WalkInit
    /\ CellInit
    /\ MergerInit
    /\ RegistryInit

\* the cell grows by one piece
CellPiece(piece) ==
    /\ pc = "cell"
    /\ PieceCount(value_str) < MaxPieces
    /\ value_str' = value_str \o piece
    /\ UNCHANGED <<pc, is_group, reply>>
    /\ UNCHANGED parserVars
    /\ UNCHANGED walkVars
    /\ UNCHANGED mergerVars
    /\ UNCHANGED registryVars

\* the body of the column loop on the cell
IsGroupName ==
    /\ pc = "cell"
    /\ is_group' = (notna(value_str) /\ _is_group_name(strip(value_str)))
    /\ pc' = "checked"
    /\ UNCHANGED <<value_str, reply>>
    /\ UNCHANGED parserVars
    /\ UNCHANGED walkVars
    /\ UNCHANGED mergerVars
    /\ UNCHANGED registryVars

NextCell ==
    \/ \E piece \in Pieces : CellPiece(piece)
    \/ IsGroupName

SpecCell == InitCell /\ [][NextCell]_vars

----------------------------------------------------------------------------
(* ExcelMerger (excel_merger.py).  A sheet is [max_row, max_column, cells,  *)
(* merged]: cells maps the positions <<row, column>>, counted from 1, whose *)
(* value is not None, and merged is list(ws.merged_cells.ranges), every     *)
(* range a record [min_row, min_col, max_row, max_col].                     *)

\* ws.cell(row=r, column=c).value
cell_value(ws, r, c) ==
    IF <<r, c>> \in DOMAIN ws.cells THEN ws.cells[<<r, c>>] ELSE None

\* cells after ws.cell(row=r, column=c).value = v
set_value(cells, r, c, v) ==
    IF v = None
    THEN [q \in DOMAIN cells \ {<<r, c>>} |-> cells[q]]
    ELSE [q \in DOMAIN cells \cup {<<r, c>>} |-> IF q = <<r, c>> THEN v ELSE cells[q]]

Letters ==
    <<"A", "B", "C", "D", "E", "F", "G", "H", "I", "J", "K", "L", "M",
      "N", "O", "P", "Q", "R", "S", "T", "U", "V", "W", "X", "Y", "Z">>

isalpha(ch) == \E i \in 1..Len(Letters) : Letters[i] = ch

\* openpyxl.utils.get_column_letter
RECURSIVE get_column_letter(_)
get_column_letter(n) ==
    IF n <= 0 THEN <<>>
    ELSE get_column_letter((n - 1) \div Len(Letters))
         \o <<Letters[((n - 1) % Len(Letters)) + 1]>>

\* openpyxl.utils.column_index_from_string
RECURSIVE column_index_from_string(_)
column_index_from_string(col_str) ==
    IF col_str = <<>> THEN 0
    ELSE Len(Letters) * column_index_from_string(SubSeq(col_str, 1, Len(col_str) - 1))
         + (CHOOSE i \in 1..Len(Letters) : Letters[i] = col_str[Len(col_str)])

DigitChars == <<"0", "1", "2", "3", "4", "5", "6", "7", "8", "9">>

\* str(n) for an int n >= 0
RECURSIVE int_str(_)
int_str(n) ==
    IF n < 10 THEN <<DigitChars[n + 1]>>
    ELSE int_str(n \div 10) \o <<DigitChars[(n % 10) + 1]>>

\* str(merged_range): the coordinates of the range, 'B2:C3'
range_str(rng) ==
    IF rng.min_row = rng.max_row /\ rng.min_col = rng.max_col
    THEN get_column_letter(rng.min_col) \o int_str(rng.min_row)
    ELSE get_column_letter(rng.min_col) \o int_str(rng.min_row) \o <<":">>
         \o get_column_letter(rng.max_col) \o int_str(rng.max_row)

_parse_cell(cell_str) ==
    LET col_str == SelectSeq(cell_str, LAMBDA ch : isalpha(ch))
        row_str == SelectSeq(cell_str, LAMBDA ch : ~isalpha(ch))
    IN [raised |-> col_str = <<>> \/ ~int(row_str).ok,
        col |-> column_index_from_string(col_str),
        row |-> int(row_str).val]

\* the two loops of _expand_merged_range from the position (r, c) on
RECURSIVE fill_range(_, _, _, _, _, _, _)
fill_range(cells, r, c, start_col, end_row, end_col, v) ==
    IF r > end_row THEN cells
    ELSE IF c > end_col
    THEN fill_range(cells, r + 1, start_col, start_col, end_row, end_col, v)
    ELSE fill_range(set_value(cells, r, c, v), r, c + 1, start_col, end_row, end_col, v)

\* the loops with range(start_row, end_row): the last row is left out
_expand_merged_range_short(src_ws, dst_cells, merged_range) ==
    LET parts == split(range_str(merged_range), ":")
    IN IF Len(parts) # 2 THEN [raised |-> TRUE, cells |-> dst_cells]
       ELSE LET first == _parse_cell(parts[1])
                last == _parse_cell(parts[2])
                top_left_val == cell_value(src_ws, first.row, first.col)
            IN IF first.raised \/ last.raised
               THEN [raised |-> TRUE, cells |-> dst_cells]
               ELSE [raised |-> FALSE,
                     cells |-> fill_range(dst_cells, first.row, first.col, first.col,
                                          last.row - 1, last.col, top_left_val)]

\* the cells of dst_ws after _expand_merged_range, or raised: unpacking
\* the split raises when the text of the range holds no ':'
_expand_merged_range(src_ws, dst_cells, merged_range) ==
    LET parts == split(range_str(merged_range), ":")
    IN IF Len(parts) # 2 THEN [raised |-> TRUE, cells |-> dst_cells]
       ELSE LET first == _parse_cell(parts[1])
                last == _parse_cell(parts[2])
                top_left_val == cell_value(src_ws, first.row, first.col)
            IN IF first.raised \/ last.raised
               THEN [raised |-> TRUE, cells |-> dst_cells]
               ELSE [raised |-> FALSE,
                     cells |-> fill_range(dst_cells, first.row, first.col, first.col,
                                          last.row, last.col, top_left_val)]

\* the copy loops of merge_cells from the position (r, c) on
RECURSIVE copy_cells(_, _, _, _)
copy_cells(ws, cells, r, c) ==
    IF r > ws.max_row THEN cells
    ELSE IF c > ws.max_column THEN copy_cells(ws, cells, r + 1, 1)
    ELSE copy_cells(ws, set_value(cells, r, c, cell_value(ws, r, c)), r, c + 1)

\* the loop over merged_ranges from range number k on
RECURSIVE expand_all(_, _, _)
expand_all(ws, cells, k) ==
    IF k > Len(ws.merged) THEN [raised |-> FALSE, cells |-> cells]
    ELSE LET e == _expand_merged_range(ws, cells, ws.merged[k])
         IN IF e.raised THEN e ELSE expand_all(ws, e.cells, k + 1)

\* merge_cells(): what it returns and the sheet in output_file after it
merge_cells(in_file, out_file) ==
    IF in_file = NoSheet
    THEN [ret |-> FALSE, output |-> out_file]
    ELSE LET e == expand_all(in_file, copy_cells(in_file, <<>>, 1, 1), 1)
         IN IF e.raised
            THEN [ret |-> FALSE, output |-> out_file]
            ELSE [ret |-> TRUE,
                  output |-> [max_row |-> in_file.max_row,
                              max_column |-> in_file.max_column,
                              cells |-> e.cells,
                              merged |-> <<>>]]

----------------------------------------------------------------------------
(* The workbooks ExcelMerger is run on.  The merged ranges of a sheet do    *)
(* not overlap, and a cell of a merged range other than its top-left cell   *)
(* is loaded without a value.                                               *)

SheetRows == 2
SheetCols == 3
MaxRanges == 2

\* the value written in the cell (r, c)
Val(r, c) == <<"v">> \o int_str(r) \o int_str(c)

Positions == (1..SheetRows) \X (1..SheetCols)

\* the ranges of two or more cells
Rects ==
    {rng \in [min_row : 1..SheetRows, min_col : 1..SheetCols,
              max_row : 1..SheetRows, max_col : 1..SheetCols] :
        /\ rng.min_row <= rng.max_row
        /\ rng.min_col <= rng.max_col
        /\ (rng.min_row < rng.max_row \/ rng.min_col < rng.max_col)}

InRange(rng, r, c) ==
    /\ rng.min_row <= r /\ r <= rng.max_row
    /\ rng.min_col <= c /\ c <= rng.max_col

Overlap(a, b) == \E q \in Positions : InRange(a, q[1], q[2]) /\ InRange(b, q[1], q[2])

\* the lists of n or fewer ranges that do not overlap
RECURSIVE RangeLists(_)
RangeLists(n) ==
    IF n = 0 THEN {<<>>}
    ELSE LET shorter == RangeLists(n - 1)
         IN shorter \cup
            UNION {{Append(l, rng) :
                       rng \in {y \in Rects : \A k \in 1..Len(l) : ~Overlap(y, l[k])}} :
                   l \in {x \in shorter : Len(x) = n - 1}}

\* a cell that the merged range number k of the list covers, its top-left
\* cell left out
Covered(ranges, q) ==
    \E k \in 1..Len(ranges) :
        /\ InRange(ranges[k], q[1], q[2])
        /\ q # <<ranges[k].min_row, ranges[k].min_col>>

\* the largest of a set of naturals, 1 for the empty set
Largest(S) == IF S = {} THEN 1 ELSE CHOOSE x \in S : \A y \in S : y <= x

\* the sheet as load_workbook returns it: every cell holds its value but
\* the cell blank and the covered cells of the merged ranges
Sheet(ranges, blank) ==
    LET filled == {q \in Positions : ~Covered(ranges, q) /\ q # blank}
    IN [max_row |-> Largest({q[1] : q \in filled}
                             \cup {ranges[k].max_row : k \in 1..Len(ranges)}),
        max_column |-> Largest({q[2] : q \in filled}
                                \cup {ranges[k].max_col : k \in 1..Len(ranges)}),
        cells |-> [q \in filled |-> Val(q[1], q[2])],
        merged |-> ranges]

\* the sheets with n or fewer merged ranges
Sheets(n) ==
    {Sheet(ranges, blank) :
        ranges \in RangeLists(n), blank \in Positions \cup {<<0, 0>>}}

InitMerger ==
    /\ ParserInit
    /\ pc = "merger"
    /\ reply = NoReply
    /\ WalkInit
    /\ CellInit
    /\ input_file \in Sheets(MaxRanges) \cup {NoSheet}
    /\ output_file = NoSheet
    /\ merge_ret = FALSE
    /\ RegistryInit

\* merge_cells() on the two files
MergeCells ==
    /\ pc = "merger"
    /\ LET m == merge_cells(input_file, output_file)
       IN /\ merge_ret' = m.ret
          /\ output_file' = m.output
    /\ pc' = "merged"
    /\ UNCHANGED <<input_file, reply>>
    /\ UNCHANGED parserVars
    /\ UNCHANGED walkVars
    /\ UNCHANGED cellVars
    /\ UNCHANGED registryVars

NextMerger == MergeCells

SpecMerger == InitMerger /\ [][NextMerger]_vars

----------------------------------------------------------------------------
(* The user registry.  bot.py imports UserDatabase from user_database.py,  *)
(* the registry on SQLite; database.py holds a UserDatabase with the same  *)
(* calls on a JSON file.  A row of the table is [group, notifications,     *)
(* notification_time], a record of the JSON file is [group,                *)
(* notifications]; the timestamps registered and updated are left out.     *)
(* The table is keyed by user_id, the JSON file by str(user_id).           *)

T0800 == <<"0", "8", ":", "0", "0">>
T0830 == <<"0", "8", ":", "3", "0">>
T85 == <<" ", "8", ":", "5">>

\* table without the entry of key k
drop(table, k) == [x \in DOMAIN table \ {k} |-> table[x]]

\* the row with notifications and notification_time kept from the old row
sqlite_row_keeping(table, user_id, group) ==
    IF user_id \in DOMAIN table
    THEN [table[user_id] EXCEPT !.group = group]
    ELSE [group |-> group, notifications |-> TRUE, notification_time |-> T0800]

\* the row written by INSERT OR REPLACE ... VALUES (?, ?, CURRENT_TIMESTAMP, 1, '08:00')
sqlite_row(table, user_id, group) ==
    [group |-> group, notifications |-> TRUE, notification_time |-> T0800]

sqlite_add_user(table, user_id, group) ==
    [ret |-> TRUE, users |-> put(table, user_id, sqlite_row(table, user_id, group))]

sqlite_get_user_group(table, user_id) ==
    IF user_id \in DOMAIN table THEN table[user_id].group ELSE None

sqlite_user_exists(table, user_id) == sqlite_get_user_group(table, user_id) # None

\* UPDATE ... WHERE user_id = ?: True when a row was affected
sqlite_update_group(table, user_id, new_group) ==
    IF user_id \in DOMAIN table
    THEN [ret |-> TRUE, users |-> [table EXCEPT ![user_id].group = new_group]]
    ELSE [ret |-> FALSE, users |-> table]

sqlite_set_notifications(table, user_id, enabled) ==
    IF user_id \in DOMAIN table
    THEN [ret |-> TRUE, users |-> [table EXCEPT ![user_id].notifications = enabled]]
    ELSE [ret |-> FALSE, users |-> table]

\* the validation with the bounds of the hours and minutes left out
time_is_valid_any_number(time_str) ==
    LET parts == split(time_str, ":")
    IN /\ Len(parts) = 2
       /\ int(parts[1]).ok
       /\ int(parts[2]).ok

\* the validation of set_notification_time: a ValueError of int() is
\* caught and gives False
time_is_valid(time_str) ==
    LET parts == split(time_str, ":")
    IN /\ Len(parts) = 2
       /\ int(parts[1]).ok
       /\ int(parts[2]).ok
       /\ 0 <= int(parts[1]).val
       /\ int(parts[1]).val <= 23
       /\ 0 <= int(parts[2]).val
       /\ int(parts[2]).val <= 59

sqlite_set_notification_time(table, user_id, time_str) ==
    IF time_is_valid(time_str) /\ user_id \in DOMAIN table
    THEN [ret |-> TRUE, users |-> [table EXCEPT ![user_id].notification_time = time_str]]
    ELSE [ret |-> FALSE, users |-> table]

sqlite_delete_user(table, user_id) ==
    IF user_id \in DOMAIN table
    THEN [ret |-> TRUE, users |-> drop(table, user_id)]
    ELSE [ret |-> FALSE, users |-> table]

\* the users selected whatever their notifications flag is
get_users_by_time_only(table, time_str) ==
    LET due == {u \in DOMAIN table : table[u].notification_time = time_str}
    IN [u \in due |-> table[u].group]

\* SELECT user_id, "group" ... WHERE notifications = 1 AND notification_time = ?
get_users_by_notification_time(table, time_str) ==
    LET due == {u \in DOMAIN table :
                   table[u].notifications /\ table[u].notification_time = time_str}
    IN [u \in due |-> table[u].group]

\* the key of a user in the JSON file
user_key(user_id) == int_str(user_id)

\* _read_db: the content of the file, or {} when reading it raises
_read_db(file, read_fails) == IF read_fails THEN <<>> ELSE file

\* the record stored by add_user of database.py, without its timestamp
json_record(group) == [group |-> group, notifications |-> TRUE]

\* add_user of database.py: the dict read, with the record of the user
\* replaced, is written back
json_add_user(file, user_id, group, read_fails) ==
    LET db == _read_db(file, read_fails)
    IN [ret |-> TRUE, users |-> put(db, user_key(user_id), json_record(group))]

json_update_group(file, user_id, new_group, read_fails) ==
    LET db == _read_db(file, read_fails)
    IN IF user_key(user_id) \in DOMAIN db
       THEN [ret |-> TRUE, users |-> [db EXCEPT ![user_key(user_id)].group = new_group]]
       ELSE [ret |-> FALSE, users |-> file]

json_set_notifications(file, user_id, enabled, read_fails) ==
    LET db == _read_db(file, read_fails)
    IN IF user_key(user_id) \in DOMAIN db
       THEN [ret |-> TRUE,
             users |-> [db EXCEPT ![user_key(user_id)].notifications = enabled]]
       ELSE [ret |-> FALSE, users |-> file]

json_delete_user(file, user_id, read_fails) ==
    LET db == _read_db(file, read_fails)
    IN IF user_key(user_id) \in DOMAIN db
       THEN [ret |-> TRUE, users |-> drop(db, user_key(user_id))]
       ELSE [ret |-> FALSE, users |-> file]

----------------------------------------------------------------------------
(* The registries under their calls, on a file left by earlier runs.       *)

RegistryGroups == {GA, GB}

\* texts given to set_notification_time
TimeTexts ==
    {T0830, T85,
     <<"2", "4", ":", "0", "0">>, <<"1", "2", ":", "6", "0">>,
     <<"-", "1", ":", "3", "0">>, <<"a", "b", ":", "3", "0">>,
     <<"0", "8", "3", "0">>, <<"1", ":", "2", ":", "3">>}

\* the tables and the JSON files an earlier run can have left
Rows(times) ==
    [group : RegistryGroups, notifications : BOOLEAN, notification_time : times]

Tables(times) == UNION {[D -> Rows(times)] : D \in SUBSET UserIds}

JsonFiles ==
    UNION {[{user_key(u) : u \in D} -> [group : RegistryGroups, notifications : BOOLEAN]] :
              D \in SUBSET UserIds}

InitRegistry ==
    /\ ParserInit
    /\ pc = "registry"
    /\ reply = NoReply
    /\ WalkInit
    /\ CellInit
    /\ MergerInit
    /\ conv = [u \in UserIds |-> END]
    /\ event = NoEvent
    /\ \/ registry = "sqlite" /\ users \in Tables({T0800, T0830, T85})
       \/ registry = "json" /\ users \in JsonFiles

\* the key of a user in the registry in use
registry_key(user_id) == IF registry = "json" THEN user_key(user_id) ELSE user_id

\* the record the registry holds for the user: a set of one record or none
stored(user_id) ==
    IF registry_key(user_id) \in DOMAIN users THEN {users[registry_key(user_id)]} ELSE {}

\* a call on the registry: its result is stored, and the event keeps the
\* arguments, the returned value and the record held before the call
RegistryCall(op, user_id, arg, read_fails, r) ==
    /\ users' = r.users
    /\ event' = [op |-> op, user |-> user_id, arg |-> arg, read_failed |-> read_fails,
                 ret |-> r.ret, prior |-> stored(user_id), tried |-> {}, sent |-> {}]
    /\ UNCHANGED <<registry, conv>>
    /\ UNCHANGED <<parserVars, botVars, walkVars, cellVars, mergerVars>>

AddUser(user_id, group, read_fails) ==
    /\ pc = "registry"
    /\ read_fails => registry = "json"
    /\ RegistryCall("add_user", user_id, group, read_fails,
           IF registry = "json"
           THEN json_add_user(users, user_id, group, read_fails)
           ELSE sqlite_add_user(users, user_id, group))

UpdateGroup(user_id, new_group, read_fails) ==
    /\ pc = "registry"
    /\ read_fails => registry = "json"
    /\ RegistryCall("update_group", user_id, new_group, read_fails,
           IF registry = "json"
           THEN json_update_group(users, user_id, new_group, read_fails)
           ELSE sqlite_update_group(users, user_id, new_group))

SetNotifications(user_id, enabled, read_fails) ==
    /\ pc = "registry"
    /\ read_fails => registry = "json"
    /\ RegistryCall("set_notifications", user_id, enabled, read_fails,
           IF registry = "json"
           THEN json_set_notifications(users, user_id, enabled, read_fails)
           ELSE sqlite_set_notifications(users, user_id, enabled))

DeleteUser(user_id, read_fails) ==
    /\ pc = "registry"
    /\ read_fails => registry = "json"
    /\ RegistryCall("delete_user", user_id, <<>>, read_fails,
           IF registry = "json"
           THEN json_delete_user(users, user_id, read_fails)
           ELSE sqlite_delete_user(users, user_id))

\* only the registry on SQLite has this call
SetNotificationTime(user_id, time_str) ==
    /\ pc = "registry"
    /\ registry = "sqlite"
    /\ RegistryCall("set_notification_time", user_id, time_str, FALSE,
           sqlite_set_notification_time(users, user_id, time_str))

NextRegistry ==
    \/ \E user_id \in UserIds, group \in RegistryGroups, read_fails \in BOOLEAN :
           AddUser(user_id, group, read_fails)
    \/ \E user_id \in UserIds, group \in RegistryGroups, read_fails \in BOOLEAN :
           UpdateGroup(user_id, group, read_fails)
    \/ \E user_id \in UserIds, enabled \in BOOLEAN, read_fails \in BOOLEAN :
           SetNotifications(user_id, enabled, read_fails)
    \/ \E user_id \in UserIds, read_fails \in BOOLEAN : DeleteUser(user_id, read_fails)
    \/ \E user_id \in UserIds, time_str \in TimeTexts :
           SetNotificationTime(user_id, time_str)

SpecRegistry == InitRegistry /\ [][NextRegistry]_vars

----------------------------------------------------------------------------
(* The conversation of bot.py on the registry it imports.  A handler runs  *)
(* to its end before the next update is handled; it returns the next state *)
(* of the user's conversation.  The states CHOOSING_DAY and                *)
(* CHOOSING_NOTIFICATION_TIME are entered through menus of the config      *)
(* module and are not modelled.                                            *)

\* the handler that stores the text without looking at get_groups()
choose_group_unchecked(table, gs, user_id, text) ==
    [users |-> sqlite_add_user(table, user_id, strip(text)).users,
     next |-> CHOOSING_ACTION]

\* choose_group: the table and the state it returns
choose_group(table, gs, user_id, text) ==
    LET group == strip(text)
    IN IF ~(\E i \in 1..Len(get_groups(gs)) : get_groups(gs)[i] = group)
       THEN [users |-> table, next |-> CHOOSING_GROUP]
       ELSE [users |-> sqlite_add_user(table, user_id, group).users,
             next |-> CHOOSING_ACTION]

\* the files the bot of the conversation is started on
ChatFiles == {Frame(FullRows, HeaderFirst, BodyA), Unreadable}

\* the texts of the messages sent while a group is asked for
MessageTexts == {GA, GB, <<" ">> \o GA \o <<" ">>, GC}

InitChat ==
    /\ ParserInit
    /\ pc = "start"
    /\ reply = NoReply
    /\ WalkInit
    /\ CellInit
    /\ MergerInit
    /\ registry = "sqlite"
    /\ users \in Tables({T0800, T0830})
    /\ conv = [u \in UserIds |-> END]
    /\ event = NoEvent

\* a handler of the conversation has returned next for the user
Handled(op, user_id, arg, next) ==
    /\ conv' = [conv EXCEPT ![user_id] = next]
    /\ event' = [op |-> op, user |-> user_id, arg |-> arg, read_failed |-> FALSE,
                 ret |-> next, prior |-> stored(user_id), tried |-> {}, sent |-> {}]
    /\ UNCHANGED registry
    /\ UNCHANGED <<parserVars, botVars, walkVars, cellVars, mergerVars>>

\* /start, the entry point of the conversation
Start(user_id) ==
    /\ pc = "polling"
    /\ conv[user_id] = END
    /\ Handled("start", user_id, <<>>,
               IF sqlite_user_exists(users, user_id) THEN CHOOSING_ACTION
               ELSE CHOOSING_GROUP)
    /\ UNCHANGED users

ChooseGroup(user_id, text) ==
    /\ pc = "polling"
    /\ conv[user_id] = CHOOSING_GROUP
    /\ Handled("choose_group", user_id, text,
               choose_group(users, groups, user_id, text).next)
    /\ users' = choose_group(users, groups, user_id, text).users

\* handle_text on the button that changes the group
ChangeGroup(user_id) ==
    /\ pc = "polling"
    /\ conv[user_id] = CHOOSING_ACTION
    /\ Handled("change_group", user_id, <<>>, CHOOSING_GROUP)
    /\ UNCHANGED users

\* /cancel, or the exit button of the action menu
Cancel(user_id) ==
    /\ pc = "polling"
    /\ conv[user_id] # END
    /\ Handled("cancel", user_id, <<>>, END)
    /\ UNCHANGED users

NextChat ==
    \/ \E f \in ChatFiles : PostInit(f)
    \/ \E user_id \in UserIds : Start(user_id)
    \/ \E user_id \in UserIds, text \in MessageTexts : ChooseGroup(user_id, text)
    \/ \E user_id \in UserIds : ChangeGroup(user_id)
    \/ \E user_id \in UserIds : Cancel(user_id)

SpecChat == InitChat /\ [][NextChat]_vars

----------------------------------------------------------------------------
(* The notification tick of bot.py: the job queue calls                    *)
(* send_scheduled_notifications once a minute.                             *)

\* config.DAYS_RU: the day names, by datetime.weekday()
DAYS_RU == DayNames

\* the text of the message of one user
notification_text(sched, group, day_name) ==
    <<"CALENDAR", " ", "RASPISANIE NA", " ", day_name, ":", "\n", "\n">>
    \o format_day_schedule(sched, group, day_name)

\* send_scheduled_notifications at the time now of a day weekday, when
\* send_message raises for the users in failing: the users send_message
\* was called for, and the messages that were sent
send_scheduled_notifications(table, sched, now, weekday, failing) ==
    LET due == get_users_by_notification_time(table, now)
    IN IF DOMAIN due = {} \/ weekday > 4
       THEN [tried |-> {}, sent |-> {}]
       ELSE [tried |-> DOMAIN due,
             sent |-> {[chat_id |-> u,
                        text |-> notification_text(sched, due[u], DAYS_RU[weekday + 1])] :
                          u \in DOMAIN due \ failing}]

\* datetime.now().strftime('%H:%M') and datetime.now().weekday()
NowTimes == {T0800, T0830}

Weekdays == 0..6

InitTick ==
    /\ ParserInit
    /\ pc = "start"
    /\ reply = NoReply
    /\ WalkInit
    /\ CellInit
    /\ MergerInit
    /\ registry = "sqlite"
    /\ users \in Tables({T0800, T0830, T85})
    /\ conv = [u \in UserIds |-> END]
    /\ event = NoEvent

Tick(now, weekday, failing) ==
    /\ pc = "polling"
    /\ LET r == send_scheduled_notifications(users, schedule, now, weekday, failing)
       IN event' = [op |-> "tick", user |-> 0,
                    arg |-> [now |-> now, weekday |-> weekday, failing |-> failing],
                    read_failed |-> FALSE, ret |-> FALSE, prior |-> {},
                    tried |-> r.tried, sent |-> r.sent]
    /\ UNCHANGED <<registry, users, conv>>
    /\ UNCHANGED <<parserVars, botVars, walkVars, cellVars, mergerVars>>

NextTick ==
    \/ \E f \in ChatFiles : PostInit(f)
    \/ \E now \in NowTimes, weekday \in Weekdays, failing \in SUBSET UserIds :
           Tick(now, weekday, failing)

SpecTick == InitTick /\ [][NextTick]_vars

----------------------------------------------------------------------------
(* Properties of parse().                                                  *)

\* the columns of row r of the frame f that hold a group token
QualifyingColumns(f, r) ==
    {c \in FirstGroupColumn..(f.ncols - 1) :
        notna(iloc(f, r, c)) /\ _is_group_name(strip(iloc(f, r, c)))}

\* no row among the first 30 holds two or more group tokens
NoHeaderRow(f) ==
    \A r \in 0..(HeaderWindow - 1) :
        r < f.nrows => Cardinality(QualifyingColumns(f, r)) < 2

\* every query of the timetable answers as it did before the last parse()
SameTimetable ==
    /\ DOMAIN schedule = DOMAIN before.schedule
    /\ \A g \in DOMAIN schedule : schedule[g] = before.schedule[g]

\* C1: a parse() of a grid without a header row returns False and leaves
\* get_groups() and the timetable as they were, whatever happened before.
C1_NoHeaderLeavesStore ==
    (before.called /\ before.file # Unreadable /\ NoHeaderRow(before.file))
        => /\ ret = FALSE
           /\ get_groups(groups) = get_groups(before.groups)
           /\ SameTimetable

\* C2: whenever parse() returns False, get_groups() and the schedule of
\* every group and day are what they were before the call.
C2_NoPartialTimetableOnFailure ==
    (before.called /\ ret = FALSE)
        => /\ get_groups(groups) = get_groups(before.groups)
           /\ SameTimetable

\* C3: after a successful parse() the groups that have a stored schedule
\* are exactly the groups get_groups() returns.
C3_FullReplacement ==
    (before.called /\ ret = TRUE)
        => DOMAIN schedule = {groups[i].name : i \in 1..Len(groups)}

\* the last parse() read the grid that the parse() before it had loaded
ParsedSameGridAgain ==
    before.called /\ before.file # Unreadable /\ before.file = before.df

\* C4: a parse() of the grid that the previous parse() read leaves
\* get_groups() and every group's and day's list of blocks as they were.
C4_Idempotent ==
    ParsedSameGridAgain
        => /\ get_groups(groups) = get_groups(before.groups)
           /\ SameTimetable

\* C4 happens: the same grid was parsed twice, with success and lessons.
C4_Witness ==
    /\ ParsedSameGridAgain
    /\ ret = TRUE
    /\ \E g \in DOMAIN schedule : schedule[g]["ponedelnik"] # <<>>

\* the timetable holds a week of seven days for every group of the parse
CompleteTimetable ==
    \A i \in 1..Len(groups) :
        /\ groups[i].name \in DOMAIN schedule
        /\ DOMAIN schedule[groups[i].name] = DaySet

\* C5: whenever a query is served, the timetable is either the one before
\* the parse or the complete one of a parse that ran to its end.
C5_ReadersSeeCompleteTimetable ==
    pc = "polling"
        => \/ (SameTimetable /\ groups = before.groups)
           \/ (ret = TRUE /\ CompleteTimetable)

\* the lowest row of the window of f with two or more qualifying cells
LowestHeaderRow(f) ==
    CHOOSE r \in 0..(HeaderWindow - 1) :
        /\ r < f.nrows
        /\ Cardinality(QualifyingColumns(f, r)) >= 2
        /\ \A q \in 0..(r - 1) : Cardinality(QualifyingColumns(f, q)) < 2

\* C11: after a parse() of a grid with a header row, the header row is the
\* lowest row of rows 0..29 with two or more qualifying cells from column 2
\* on and the groups are exactly the qualifying cells of that row, by
\* increasing column; no group ever comes from column 0 or 1.
C11_HeaderSelection ==
    /\ \A i \in 1..Len(groups) : groups[i].column >= 2
    /\ (before.called /\ before.file # Unreadable /\ ~NoHeaderRow(before.file))
           => LET f == before.file
                  r == LowestHeaderRow(f)
              IN /\ groups_row = r
                 /\ {groups[i].column : i \in 1..Len(groups)} = QualifyingColumns(f, r)
                 /\ Len(groups) = Cardinality(QualifyingColumns(f, r))
                 /\ \A i \in 1..Len(groups) :
                        groups[i].name = strip(iloc(f, r, groups[i].column))
                 /\ \A i \in 1..Len(groups), j \in 1..Len(groups) :
                        i < j => groups[i].column < groups[j].column
                 /\ get_groups(groups) =
                        [i \in 1..Len(groups) |-> strip(iloc(f, r, groups[i].column))]

\* C11 happens: the header is row 29 although a row above it holds tokens
\* in columns 0, 1 and 2, or it is row 0 although row 5 holds more tokens.
C11_Witness ==
    /\ before.called
    /\ before.file # Unreadable
    /\ \/ /\ groups_row = HeaderWindow - 1
          /\ \E r \in 0..(HeaderWindow - 2) : QualifyingColumns(before.file, r) # {}
       \/ /\ groups_row = 0
          /\ \E r \in 1..(HeaderWindow - 1) :
                 Cardinality(QualifyingColumns(before.file, r)) > Len(groups)

\* the group-token grammar as it is specified
GroupGrammar(v) ==
    /\ Len(v) >= 5
    /\ ~is_substring(INFORMATIKA, str_upper(v))
    /\ \E i \in 1..Len(v) : v[i] = "-"
    /\ \E i \in 1..Len(v), j \in 1..Len(v) : i < j /\ v[i] = "(" /\ v[j] = ")"
    /\ v[1] \in Digits

\* C12: a trimmed cell is taken as a group name exactly if it is 5 or more
\* characters long, does not contain INFORMATIKA in any case, contains '-',
\* contains a '(' with a ')' after it, and starts with a decimal digit.
C12_GroupGrammar ==
    pc = "checked" => (is_group <=> GroupGrammar(strip(value_str)))

\* the walk over rows r..end_row with every cell outside the frame empty
RECURSIVE AbsorbedRows(_, _, _, _, _)
AbsorbedRows(f, col_idx, r, end_row, st) ==
    IF r > end_row THEN st
    ELSE AbsorbedRows(f, col_idx, r + 1, end_row,
             RowStep(st,
                     IF iloc_raises(f, r, TimeColumn) THEN NaN ELSE iloc(f, r, TimeColumn),
                     IF iloc_raises(f, r, col_idx) THEN NaN ELSE iloc(f, r, col_idx)))

\* the frame ends before the last row of the last day range
EndsEarly(f) == f.nrows <= days_ranges[Len(days_ranges)].end_row

\* C13: a parse() of a grid that ends before row 108 raises nothing: it
\* returns True and every group has, for every day, the blocks of the rows
\* that exist, the missing cells counting as empty.
C13_OutOfBoundsAbsorbed ==
    (before.called /\ before.file # Unreadable /\ EndsEarly(before.file)
        /\ groups # <<>>)
        => /\ ret = TRUE
           /\ \A i \in 1..Len(groups) :
                  /\ groups[i].name \in DOMAIN schedule
                  /\ \A k \in 1..Len(days_ranges) :
                         schedule[groups[i].name][days_ranges[k].day] =
                             RenderDay(AbsorbedRows(before.file, groups[i].column,
                                           days_ranges[k].start_row,
                                           days_ranges[k].end_row,
                                           WalkStart).lessons_by_time)

\* C14: a parse() that cannot read the spreadsheet returns False and leaves
\* get_groups(), the timetable and the grid loaded before as they were.
C14_UnreadableLeavesStore ==
    (before.called /\ before.file = Unreadable)
        => /\ ret = FALSE
           /\ get_groups(groups) = get_groups(before.groups)
           /\ groups = before.groups
           /\ schedule = before.schedule
           /\ df = before.df

\* C14 happens: the file became unreadable after a parse() had loaded a
\* grid, found groups and stored lessons.
C14_Witness ==
    /\ before.called
    /\ before.file = Unreadable
    /\ before.df # NoFrame
    /\ before.groups # <<>>
    /\ \E g \in DOMAIN schedule : \E d \in DOMAIN schedule[g] : schedule[g][d] # <<>>

\* C15: every group with a stored timetable has the seven day keys, and
\* its Sunday is empty.
C15_SevenDays ==
    \A g \in DOMAIN schedule :
        /\ DOMAIN schedule[g] =
               {"ponedelnik", "vtornik", "sreda", "chetverg", "pyatnitsa",
                "subbota", "voskresenye"}
        /\ schedule[g]["voskresenye"] = <<>>

\* C15 happens: the groups of two headers are stored, with lessons on
\* Monday for one group and on Tuesday for another.
C15_Witness ==
    /\ Cardinality(DOMAIN schedule) >= 3
    /\ \E g \in DOMAIN schedule : schedule[g]["ponedelnik"] # <<>>
    /\ \E g \in DOMAIN schedule : schedule[g]["vtornik"] # <<>>

\* C19: the groups held by the parser have strictly increasing columns,
\* all of them 2 or more, every name satisfies the group-token grammar, and
\* there are no groups or at least two.
C19_GroupHeaders ==
    /\ \A i \in 1..Len(groups), j \in 1..Len(groups) :
           i < j => groups[i].column < groups[j].column
    /\ \A i \in 1..Len(groups) :
           /\ groups[i].column >= 2
           /\ GroupGrammar(groups[i].name)
    /\ (Len(groups) = 0 \/ Len(groups) >= 2)

----------------------------------------------------------------------------
(* Properties of the queries.                                              *)

\* the canonical name of a day given in any case
Canonical(day) ==
    IF day \in {"ponedelnik", "Ponedelnik"} THEN "ponedelnik" ELSE day

\* the display header of a canonical day
DayHeader(day) ==
    <<"PIN", " ">> \o
    <<CASE day = "ponedelnik" -> "PONEDELNIK"
        [] day = "vtornik" -> "VTORNIK"
        [] day = "sreda" -> "SREDA"
        [] day = "chetverg" -> "CHETVERG"
        [] day = "pyatnitsa" -> "PYATNITSA"
        [] day = "subbota" -> "SUBBOTA"
        [] day = "voskresenye" -> "VOSKRESENYE">>

SevenDays ==
    {"ponedelnik", "vtornik", "sreda", "chetverg", "pyatnitsa", "subbota",
     "voskresenye"}

\* the group is not stored, or its day holds no block
NothingStored(group, day) ==
    \/ group \notin DOMAIN schedule
    \/ schedule[group][day] = <<>>

\* C16: for a group that is not in the timetable, and for a stored group on
\* a day without blocks, format_day_schedule returns the header of the day,
\* a newline and the no-lessons text, and get_schedule_for_day returns the
\* empty sequence.
C16_NoLessonsRendering ==
    (Canonical(reply.day) \in SevenDays /\ NothingStored(reply.group, Canonical(reply.day)))
        => /\ reply.op = "format_day_schedule"
                  => reply.value = DayHeader(Canonical(reply.day))
                                      \o <<"\n", "NET ZANYATIY">>
           /\ reply.op = "get_schedule_for_day" => reply.value = <<>>
           /\ get_schedule_for_day(schedule, reply.group, reply.day) = <<>>

\* C16 happens: format_day_schedule was asked for a group that is not
\* stored while other groups are, with the day written with a capital.
C16_Witness ==
    /\ reply.op = "format_day_schedule"
    /\ reply.day = "Ponedelnik"
    /\ reply.group \notin DOMAIN schedule
    /\ \E g \in DOMAIN schedule : schedule[g]["ponedelnik"] # <<>>

\* one separator line
SeparatorLine == <<"\n">> \o [i \in 1..40 |-> "BOX"] \o <<"\n">>

\* format_day_schedule of Monday to Saturday, a separator line after each
DaysThenSeparators(group) ==
    format_day_schedule(schedule, group, "ponedelnik") \o SeparatorLine
    \o format_day_schedule(schedule, group, "vtornik") \o SeparatorLine
    \o format_day_schedule(schedule, group, "sreda") \o SeparatorLine
    \o format_day_schedule(schedule, group, "chetverg") \o SeparatorLine
    \o format_day_schedule(schedule, group, "pyatnitsa") \o SeparatorLine
    \o format_day_schedule(schedule, group, "subbota") \o SeparatorLine

\* C17 as claimed: the week text is the six day texts with their separator
\* lines and nothing else.
C17_WeekIsDaysOnly ==
    reply.op = "get_schedule_for_week" => reply.value = DaysThenSeparators(reply.group)

\* C17 as amended: the week text is a title line that names the group, a
\* blank line, and then the six day texts with their separator lines.
C17_WeekTitleThenDays ==
    reply.op = "get_schedule_for_week"
        => reply.value =
               <<"CALENDAR", " ", "RASPISANIE GRUPPY", " ">> \o reply.group
               \o <<" ", "NA NEDELYU", ":", "\n", "\n">>
               \o DaysThenSeparators(reply.group)

\* C17 happens: the week of a stored group with lessons was asked for.
C17_Witness ==
    /\ reply.op = "get_schedule_for_week"
    /\ reply.group \in DOMAIN schedule
    /\ \E d \in DOMAIN schedule[reply.group] : schedule[reply.group][d] # <<>>

\* C20: a query changes neither the group list nor the timetable.
C20_QueriesDoNotMutate ==
    [][pc = "polling" => (groups' = groups /\ schedule' = schedule)]_vars

\* C20 happens: a day was asked for with a group and a day that are not
\* stored, after a parse() that stored lessons.
C20_Witness ==
    /\ reply.op = "get_schedule_for_day"
    /\ reply.group \notin DOMAIN schedule
    /\ reply.day \notin SevenDays
    /\ \E g \in DOMAIN schedule : schedule[g]["ponedelnik"] # <<>>

----------------------------------------------------------------------------
(* Properties of ExcelMerger.                                              *)

\* the cell (r, c) lies in no merged range of the sheet
OutsideRanges(ws, r, c) ==
    \A k \in 1..Len(ws.merged) :
        ~(/\ ws.merged[k].min_row <= r /\ r <= ws.merged[k].max_row
          /\ ws.merged[k].min_col <= c /\ c <= ws.merged[k].max_col)

\* the output sheet is the source sheet unmerged
Unmerged(src, out) ==
    /\ \A k \in 1..Len(src.merged) :
           \A r \in src.merged[k].min_row..src.merged[k].max_row,
              c \in src.merged[k].min_col..src.merged[k].max_col :
               cell_value(out, r, c) =
                   cell_value(src, src.merged[k].min_row, src.merged[k].min_col)
    /\ \A r \in 1..src.max_row, c \in 1..src.max_column :
           OutsideRanges(src, r, c) => cell_value(out, r, c) = cell_value(src, r, c)
    /\ DOMAIN out.cells \subseteq (1..src.max_row) \X (1..src.max_column)

\* C18: after merge_cells every cell of the output inside a merged range of
\* the source holds the value of the top-left cell of the range, every
\* other cell holds the value of the source cell in its place, and the
\* source sheet is the one it was.
C18_UnmergeCorrect ==
    /\ []((pc = "merged" /\ merge_ret = TRUE) => Unmerged(input_file, output_file))
    /\ [][input_file' = input_file]_vars

\* C18 happens: a sheet with two merged ranges, one over rows and one over
\* columns with a value in its top-left cell, has been unmerged.
C18_Witness ==
    /\ pc = "merged"
    /\ merge_ret = TRUE
    /\ Len(input_file.merged) = 2
    /\ \E k \in 1..2 : input_file.merged[k].min_row < input_file.merged[k].max_row
    /\ \E k \in 1..2 :
           /\ input_file.merged[k].min_col < input_file.merged[k].max_col
           /\ cell_value(input_file, input_file.merged[k].min_row,
                         input_file.merged[k].min_col) # None
    /\ output_file # NoSheet

----------------------------------------------------------------------------
(* Properties of the walk over a day range.                                *)

\* the time-label grammar: a '-', eight characters or more, a '.' or a ':'
TimeGrammar(v) ==
    /\ \E i \in 1..Len(v) : v[i] = "-"
    /\ Len(v) >= 8
    /\ \E i \in 1..Len(v) : v[i] \in {".", ":"}

\* a cell of the time column that holds a valid time label
CellIsLabel(cell) == notna(cell) /\ TimeGrammar(strip(cell))

\* a lesson cell whose trimmed text passes the lesson filter
LessonOk(cell) ==
    /\ notna(cell)
    /\ strip(cell) # <<>>
    /\ strip(cell) # <<"n", "a", "n">>
    /\ Len(strip(cell)) > 2

\* the nearest valid label of the time column above row i, or None
NearestLabel(i) ==
    LET above == {j \in 1..(i - 1) : CellIsLabel(day_rows[j].time)}
    IN IF above = {} THEN None
       ELSE strip(day_rows[CHOOSE j \in above : \A k \in above : k <= j].time)

\* the label row i stands under: its own, or for a blank cell the nearest
RowLabel(i) ==
    IF isna(day_rows[i].time) THEN NearestLabel(i)
    ELSE IF CellIsLabel(day_rows[i].time) THEN strip(day_rows[i].time)
    ELSE None

\* the lessons filed under the label t in the dict d
Slot(d, t) == IF dict_has(d, t) THEN dict_get(d, t) ELSE {}

\* the lines of a rendered block, its label and its lessons
BlockLines(block) == split(block, "\n")
BlockLabel(block) ==
    LET line == BlockLines(block)[1] IN SubSeq(line, 3, Len(line))
BlockLessons(block) ==
    LET lines == BlockLines(block)
    IN [i \in 1..(Len(lines) - 1) |-> SubSeq(lines[i + 1], 3, Len(lines[i + 1]))]

\* C6: an accepted lesson on a row with a blank time cell is filed under
\* the nearest valid label of column 1 above it; without such a label it is
\* dropped, and a day without any label has no time slot.
C6_ForwardFill ==
    pc = "done" =>
        /\ \A i \in 1..Len(day_rows) :
               (isna(day_rows[i].time) /\ LessonOk(day_rows[i].lesson)
                   /\ NearestLabel(i) # None)
               => strip(day_rows[i].lesson) \in Slot(lessons_by_time, NearestLabel(i))
        /\ \A k \in 1..Len(lessons_by_time) :
               \A lesson \in lessons_by_time[k].lessons :
                   \E i \in 1..Len(day_rows) :
                       /\ LessonOk(day_rows[i].lesson)
                       /\ strip(day_rows[i].lesson) = lesson
                       /\ RowLabel(i) = lessons_by_time[k].time
        /\ (\A i \in 1..Len(day_rows) : ~CellIsLabel(day_rows[i].time))
               => day_blocks = <<>>

\* C7: on a row where the time value (the cell, or last_time for a blank
\* cell) and the lesson value are present, the lesson is added under the
\* time value exactly if the time value passes the grammar and the trimmed
\* lesson is not empty, not 'nan', longer than 2 and not last_lesson; a
\* time value outside the grammar adds nothing and keeps last_time.
C7_LessonAcceptance ==
    [][row_idx' = row_idx + 1 =>
        LET cell == day_rows'[row_idx']
            time_value == IF isna(cell.time) THEN last_time ELSE cell.time
        IN (notna(time_value) /\ notna(cell.lesson)) =>
            LET t == strip(time_value)
                l == strip(cell.lesson)
                previous == IF TimeGrammar(t) THEN None ELSE last_lesson
                accept == /\ TimeGrammar(t)
                          /\ l # <<>>
                          /\ l # <<"n", "a", "n">>
                          /\ Len(l) > 2
                          /\ l # previous
                labels == {t} \cup {lessons_by_time[k].time : k \in 1..Len(lessons_by_time)}
                                \cup {lessons_by_time'[k].time : k \in 1..Len(lessons_by_time')}
            IN /\ \A u \in labels :
                      Slot(lessons_by_time', u) =
                          IF accept /\ u = t
                          THEN Slot(lessons_by_time, u) \cup {l}
                          ELSE Slot(lessons_by_time, u)
               /\ accept => last_time' = t
               /\ ~TimeGrammar(t) =>
                      /\ last_time' = last_time
                      /\ lessons_by_time' = lessons_by_time
    ]_vars

\* C7 happens: one row was accepted, one had a time value outside the
\* grammar and one held the text 'nan' under a valid label.
C7_Witness ==
    /\ pc = "rows"
    /\ lessons_by_time # <<>>
    /\ \E i \in 1..Len(day_rows) :
           day_rows[i].time = TBad /\ day_rows[i].lesson = Math
    /\ \E i \in 1..Len(day_rows) :
           CellIsLabel(day_rows[i].time) /\ day_rows[i].lesson = NanText

\* rows i..j hold one lesson value, the label on row i and a blank or the
\* same label on the rows after it
RepeatedLesson(i, j) ==
    /\ i < j
    /\ CellIsLabel(day_rows[i].time)
    /\ LessonOk(day_rows[i].lesson)
    /\ \A k \in (i + 1)..j :
           /\ day_rows[k].lesson = day_rows[i].lesson
           /\ \/ isna(day_rows[k].time)
              \/ (notna(day_rows[k].time)
                    /\ strip(day_rows[k].time) = strip(day_rows[i].time))

\* C8: a lesson repeated on consecutive rows under one time label is once
\* in the rendered block of that label, and the label has one block.
C8_DuplicateSuppression ==
    pc = "done" =>
        \A i \in 1..Len(day_rows), j \in 1..Len(day_rows) :
            RepeatedLesson(i, j) =>
                LET t == strip(day_rows[i].time)
                    l == strip(day_rows[i].lesson)
                    blocks == {b \in 1..Len(day_blocks) : BlockLabel(day_blocks[b]) = t}
                IN /\ Cardinality(blocks) = 1
                   /\ \A b \in blocks :
                          Cardinality({n \in 1..Len(BlockLessons(day_blocks[b])) :
                                          BlockLessons(day_blocks[b])[n] = l}) = 1

\* C8 happens: a lesson stands on three rows, the label on the first only.
C8_Witness ==
    /\ pc = "done"
    /\ RepeatedLesson(1, 3)
    /\ isna(day_rows[2].time)
    /\ day_blocks # <<>>

\* the sort key of the label of block number b of the day
BlockMinutes(b) == _time_to_minutes(BlockLabel(day_blocks[b]))

BeforeDash(t) ==
    LET dash == CHOOSE i \in 1..Len(t) : t[i] = "-" /\ \A j \in 1..(i - 1) : t[j] # "-"
    IN SubSeq(t, 1, dash - 1)

\* H.M: digits, one '.', digits
IsHM(s) ==
    \E dot \in 1..Len(s) :
        /\ s[dot] = "."
        /\ dot > 1
        /\ dot < Len(s)
        /\ \A i \in 1..Len(s) : i # dot => s[i] \in Digits

HMMinutes(s) ==
    LET dot == CHOOSE i \in 1..Len(s) : s[i] = "."
    IN 60 * DecVal(SubSeq(s, 1, dot - 1)) + DecVal(SubSeq(s, dot + 1, Len(s)))

\* C10: the key of a label H.M-... is 60*H + M; every other label of the
\* grammar has key 0 and its block stands before every block whose key is
\* positive.
C10_SortKey ==
    /\ \A k \in 1..Len(lessons_by_time) :
           LET t == lessons_by_time[k].time
           IN /\ TimeGrammar(t)
              /\ _time_to_minutes(t) =
                     IF IsHM(BeforeDash(t)) THEN HMMinutes(BeforeDash(t)) ELSE 0
    /\ pc = "done" =>
           \A a \in 1..Len(day_blocks), b \in 1..Len(day_blocks) :
               (~IsHM(BeforeDash(BlockLabel(day_blocks[a]))) /\ BlockMinutes(b) > 0)
                   => a < b

\* C10 happens: a label written with ':' was met after a label H.M and is
\* rendered before it.
C10_Witness ==
    /\ pc = "done"
    /\ Len(day_blocks) >= 2
    /\ IsHM(BeforeDash(lessons_by_time[1].time))
    /\ BlockLabel(day_blocks[1]) = T830c
    /\ \E b \in 1..Len(day_blocks) : BlockLabel(day_blocks[b]) = TDots

----------------------------------------------------------------------------
(* Properties of the rendering of a day.                                   *)

\* the blocks of the day whose header line carries the label t
BlocksOf(t) == {b \in 1..Len(day_blocks) : BlockLabel(day_blocks[b]) = t}

\* the lesson lines of a block stand in strictly ascending str order
LessonsAscending(block) ==
    \A m \in 1..Len(BlockLessons(block)), n \in 1..Len(BlockLessons(block)) :
        m < n => StrLess(BlockLessons(block)[m], BlockLessons(block)[n])

\* C21: a rendered block is the clock line with the time label and then
\* one book line for each distinct lesson of the slot, in ascending str
\* order; every label of the slot map has exactly one block and every
\* block belongs to a label of the slot map.
C21_DayRendering ==
    pc = "done" =>
        /\ Len(day_blocks) = Len(lessons_by_time)
        /\ \A k \in 1..Len(lessons_by_time) :
               Cardinality(BlocksOf(lessons_by_time[k].time)) = 1
        /\ \A b \in 1..Len(day_blocks) :
               LET lines == BlockLines(day_blocks[b])
                   t == BlockLabel(day_blocks[b])
               IN /\ lines[1] = <<"CLOCK", " ">> \o t
                  /\ dict_has(lessons_by_time, t)
                  /\ Len(lines) = 1 + Cardinality(Slot(lessons_by_time, t))
                  /\ \A n \in 2..Len(lines) :
                         /\ SubSeq(lines[n], 1, 2) = <<"BOOKS", " ">>
                         /\ SubSeq(lines[n], 3, Len(lines[n])) \in Slot(lessons_by_time, t)
                  /\ LessonsAscending(day_blocks[b])

\* C21 happens: a slot of two lessons, one of them met twice, and a second
\* label that starts at the same minute as the first.
C21_Witness ==
    /\ pc = "done"
    /\ Len(day_blocks) = 2
    /\ BlockLessons(day_blocks[1]) = <<Art, Math>>
    /\ day_rows[1].lesson = Math
    /\ BlockLabel(day_blocks[1]) = T830
    /\ BlockLabel(day_blocks[2]) = T830b
    /\ \E i \in 1..Len(day_rows) : day_rows[i].lesson = ArtPad

----------------------------------------------------------------------------
(* Properties of the locals of the walk.                                   *)

\* one row of a builder that has no last_lesson: the lesson filter alone
\* decides, and a slot is the set of the lessons that passed under its label
StepWithoutLast(st, time_cell, lesson_cell) ==
    LET time_value == IF isna(time_cell) THEN st.last_time ELSE time_cell
    IN IF isna(time_value) \/ isna(lesson_cell) THEN st
       ELSE IF ~TimeGrammar(strip(time_value)) THEN st
       ELSE [last_time |-> strip(time_value),
             lessons_by_time |->
                 IF LessonOk(lesson_cell)
                 THEN dict_add(st.lessons_by_time, strip(time_value), strip(lesson_cell))
                 ELSE st.lessons_by_time]

\* that builder after the first n rows of the day
RECURSIVE BuiltWithoutLast(_)
BuiltWithoutLast(n) ==
    IF n = 0 THEN [last_time |-> None, lessons_by_time |-> <<>>]
    ELSE StepWithoutLast(BuiltWithoutLast(n - 1), day_rows[n].time, day_rows[n].lesson)

\* C29: after every row the slot map and last_time are those of the
\* builder without last_lesson, and the rendered day is the rendering of
\* that builder's slot map: the comparison with last_lesson rejects nothing.
C29_LastLessonNeverRejects ==
    LET ref == BuiltWithoutLast(Len(day_rows))
    IN /\ lessons_by_time = ref.lessons_by_time
       /\ last_time = ref.last_time
       /\ pc = "done" => day_blocks = RenderDay(ref.lessons_by_time)

\* C29 happens: one lesson on three rows in a row, under a label, under a
\* second label and under a blank time cell, with last_lesson set to it.
C29_Witness ==
    /\ pc = "done"
    /\ Len(day_rows) >= 3
    /\ day_rows[1] = [time |-> T830, lesson |-> Math]
    /\ day_rows[2] = [time |-> T1010, lesson |-> Math]
    /\ day_rows[3] = [time |-> NaN, lesson |-> Math]
    /\ last_lesson = Math
    /\ Len(day_blocks) = 2

\* C30: at every step of the walk last_time is None or a label of the
\* grammar, every key of the slot map is a label of the grammar, every slot
\* is a non-empty set of texts longer than 2 and other than 'nan', and
\* every rendered block has a lesson line under its header.
C30_WalkInvariant ==
    /\ last_time = None \/ TimeGrammar(last_time)
    /\ \A k \in 1..Len(lessons_by_time) :
           /\ TimeGrammar(lessons_by_time[k].time)
           /\ lessons_by_time[k].lessons # {}
           /\ \A l \in lessons_by_time[k].lessons :
                  Len(l) > 2 /\ l # <<"n", "a", "n">>
    /\ \A b \in 1..Len(day_blocks) : Len(BlockLines(day_blocks[b])) >= 2

\* C30 happens: under one label the rows hold the text 'nan', a text of
\* two characters and a lesson, and the day is rendered as one block.
C30_Witness ==
    /\ pc = "done"
    /\ Len(day_rows) >= 3
    /\ CellIsLabel(day_rows[1].time)
    /\ day_rows[1].lesson = NanText
    /\ day_rows[2] = [time |-> NaN, lesson |-> Short]
    /\ day_rows[3] = [time |-> NaN, lesson |-> Math]
    /\ Len(day_blocks) = 1
    /\ BlockLessons(day_blocks[1]) = <<Math>>

----------------------------------------------------------------------------
(* Properties of a header row with a repeated name, and of the columns.    *)

\* the columns, from column 2 on, whose header cell holds the name
ColumnsOf(d, r, name) ==
    {c \in FirstGroupColumn..(d.ncols - 1) :
        notna(iloc(d, r, c)) /\ strip(iloc(d, r, c)) = name}

\* how often the name stands in a list of names
Occurrences(names, name) ==
    Cardinality({i \in 1..Len(names) : names[i] = name})

\* the week built from one column of the frame alone
WeekOfColumn(d, name, c) ==
    _parse_schedule(d, <<[name |-> name, column |-> c]>>, 1, <<>>).schedule[name]

Rightmost(cols) == CHOOSE c \in cols : \A e \in cols : e <= c

\* C27: after a parse that succeeded on a header row that holds a name at
\* two or more columns, get_groups() lists the name once for each of these
\* columns and the stored week of the name is the week built from the
\* rightmost of them alone.
C27_RepeatedName ==
    (pc = "polling" /\ ret) =>
        \A g \in 1..Len(groups) :
            LET name == groups[g].name
                cols == ColumnsOf(df, groups_row, name)
            IN Cardinality(cols) >= 2 =>
                /\ Occurrences(get_groups(groups), name) = Cardinality(cols)
                /\ reply.op = "get_groups" =>
                       Occurrences(reply.value, name) = Cardinality(cols)
                /\ schedule[name] = WeekOfColumn(df, name, Rightmost(cols))

\* C27 happens: get_groups() has answered on a frame whose header holds a
\* name at columns 2 and 3, and column 2 alone gives another week.
C27_Witness ==
    /\ pc = "polling"
    /\ ret
    /\ reply.op = "get_groups"
    /\ ColumnsOf(df, groups_row, GA) = {2, 3}
    /\ WeekOfColumn(df, GA, 2) # WeekOfColumn(df, GA, 3)
    /\ WeekOfColumn(df, GA, 2)["ponedelnik"] # <<>>

\* the names of a list of groups are pairwise distinct
DistinctNames(gs) ==
    \A i \in 1..Len(gs), j \in 1..Len(gs) : i # j => gs[i].name # gs[j].name

\* two frames hold the same cells in column c of the day rows
SameColumn(d, e, c) ==
    /\ d.nrows = e.nrows
    /\ \A r \in days_ranges[1].start_row..days_ranges[Len(days_ranges)].end_row :
           iloc(d, r, c) = iloc(e, r, c)

\* the frame e has the header row of the parsed frame, its column 1 and
\* its column of group number g, and differs from it in another column
AgreesFor(e, g) ==
    /\ e # df
    /\ e.nrows >= 0
    /\ header_scan(e, 0) = [found |-> TRUE, groups |-> groups, groups_row |-> groups_row]
    /\ \A c \in 0..(df.ncols - 1) : iloc(e, groups_row, c) = iloc(df, groups_row, c)
    /\ SameColumn(df, e, TimeColumn)
    /\ SameColumn(df, e, groups[g].column)

\* the store of a new parser after parse() on the frame e
StoreOf(e) ==
    LET found == _find_and_extract_groups(e, <<>>, 0 - 1)
    IN IF found.groups = <<>> THEN <<>>
       ELSE _parse_schedule(e, found.groups, 1, <<>>).schedule

\* C28: when the parsed frame has pairwise distinct group names, every
\* frame with the same header row, the same column 1 and the same column of
\* a group gives that group the week it has in the store.
C28_ColumnIndependence ==
    (pc = "polling" /\ before.file = df /\ groups # <<>> /\ DistinctNames(groups)) =>
        \A e \in StartFiles, g \in 1..Len(groups) :
            AgreesFor(e, g) =>
                get_schedule_for_group(StoreOf(e), groups[g].name)
                    = get_schedule_for_group(schedule, groups[g].name)

\* C28 happens: another frame agrees with the parsed one on the column of
\* the first group and gives the second group another week.
C28_Witness ==
    /\ pc = "polling"
    /\ ret
    /\ Len(groups) = 2
    /\ DistinctNames(groups)
    /\ \E e \in StartFiles :
           /\ AgreesFor(e, 1)
           /\ ~SameColumn(df, e, groups[2].column)
           /\ StoreOf(e)[groups[2].name] # schedule[groups[2].name]
           /\ StoreOf(e)[groups[1].name]["ponedelnik"] # <<>>

----------------------------------------------------------------------------
(* Properties of the user registry.                                        *)

\* a text that reads as an integer: blanks around it, one sign, digits
IntegerText(s) ==
    LET t == strip(s)
        body == IF t # <<>> /\ t[1] \in {"+", "-"} THEN SubSeq(t, 2, Len(t)) ELSE t
    IN body # <<>> /\ \A i \in 1..Len(body) : body[i] \in Digits

IntegerValue(s) ==
    LET t == strip(s)
    IN IF t[1] = "-" THEN 0 - DecVal(SubSeq(t, 2, Len(t)))
       ELSE IF t[1] = "+" THEN DecVal(SubSeq(t, 2, Len(t)))
       ELSE DecVal(t)

\* H:M with 0 <= H <= 23 and 0 <= M <= 59, around the one ':' of the text
HourMinute(t) ==
    \E c \in 1..Len(t) :
        /\ t[c] = ":"
        /\ \A i \in 1..Len(t) : t[i] = ":" => i = c
        /\ IntegerText(SubSeq(t, 1, c - 1))
        /\ IntegerText(SubSeq(t, c + 1, Len(t)))
        /\ IntegerValue(SubSeq(t, 1, c - 1)) \in 0..23
        /\ IntegerValue(SubSeq(t, c + 1, Len(t))) \in 0..59

C25_AddUserReplaces ==
    (event.op = "add_user" /\ event.prior # {}) =>
        /\ registry_key(event.user) \in DOMAIN users
        /\ users[registry_key(event.user)] =
               IF registry = "json"
               THEN [group |-> event.arg, notifications |-> TRUE]
               ELSE [group |-> event.arg, notifications |-> TRUE,
                     notification_time |-> T0800]

\* C25 happens: add_user was called for a user of the table whose
\* notifications were disabled and whose time was '08:30'.
C25_Witness ==
    /\ event.op = "add_user"
    /\ registry = "sqlite"
    /\ event.prior = {[group |-> GA, notifications |-> FALSE, notification_time |-> T0830]}
    /\ event.arg = GB
    /\ users[event.user].notifications

\* C26: in the registry on the JSON file a call of add_user, update_group,
\* set_notifications or delete_user for one user leaves the record of
\* every other user as it was, also when reading the file fails.
C26_OthersUnchanged ==
    [][(registry = "json"
          /\ event'.op \in {"add_user", "update_group", "set_notifications", "delete_user"}) =>
        \A v \in UserIds \ {event'.user} :
            /\ user_key(v) \in DOMAIN users <=> user_key(v) \in DOMAIN users'
            /\ user_key(v) \in DOMAIN users => users'[user_key(v)] = users[user_key(v)]
    ]_vars

----------------------------------------------------------------------------
(* Properties of the conversation and of the notification tick.            *)

\* the names get_groups() returns
ListedNames == {get_groups(groups)[i] : i \in 1..Len(get_groups(groups))}

\* what the claim says of a step of choose_group that decides on the name
\* chosen: that name is not listed and nothing changes, or it is listed
\* and it is stored for the user and the conversation goes on
ChoiceOf(chosen, u) ==
    /\ conv[u] = CHOOSING_GROUP
    /\ chosen \notin ListedNames =>
           /\ users' = users
           /\ conv' = conv
           /\ conv'[u] = CHOOSING_GROUP
    /\ chosen \in ListedNames =>
           /\ u \in DOMAIN users'
           /\ users'[u].group = chosen
           /\ \A v \in UserIds \ {u} :
                  /\ v \in DOMAIN users <=> v \in DOMAIN users'
                  /\ v \in DOMAIN users => users'[v] = users[v]
           /\ conv' = [conv EXCEPT ![u] = CHOOSING_ACTION]
    /\ users' # users => users'[u].group \in ListedNames

\* C23 as stated: in CHOOSING_GROUP a message whose text is not one of
\* get_groups() leaves the registry and the state as they were, and a
\* message whose text is one of them stores that text as the user's group
\* and moves to CHOOSING_ACTION.
C23_TextChoice ==
    [][event'.op = "choose_group" => ChoiceOf(event'.arg, event'.user)]_vars

\* C23, amended: in CHOOSING_GROUP a message whose text, with the white
\* space around it removed, is not one of get_groups() leaves the registry
\* and the state as they were; a message whose trimmed text is one of them
\* stores that name as the user's group and moves to CHOOSING_ACTION, so a
\* group the bot writes is a member of get_groups() when it is written.
C23_TrimmedChoice ==
    [][event'.op = "choose_group" => ChoiceOf(strip(event'.arg), event'.user)]_vars

\* C23 happens: a text with blanks around a listed name was sent by a
\* user in CHOOSING_GROUP who was registered with another group; the name
\* was stored and the conversation is in CHOOSING_ACTION.
C23_Witness ==
    /\ event.op = "choose_group"
    /\ event.arg = <<" ">> \o GA \o <<" ">>
    /\ \E row \in event.prior : row.group = GB
    /\ users[event.user].group = GA
    /\ conv[event.user] = CHOOSING_ACTION

\* the users the tick is due for
Due(now) ==
    {u \in DOMAIN users : users[u].notifications /\ users[u].notification_time = now}

\* text ends with tail
Carries(text, tail) ==
    /\ Len(text) >= Len(tail)
    /\ SubSeq(text, Len(text) - Len(tail) + 1, Len(text)) = tail

\* C22: a tick on Monday..Friday calls send_message for exactly the users
\* with notifications enabled whose notification_time is the tick's HH:MM,
\* a message arrives for each of them whose send did not fail, whatever
\* failed for the others, and it carries format_day_schedule of the user's
\* group for today; a tick on Saturday or Sunday sends nothing.
C22_Tick ==
    event.op = "tick" =>
        IF event.arg.weekday \in 0..4
        THEN /\ event.tried = Due(event.arg.now)
             /\ {m.chat_id : m \in event.sent} = Due(event.arg.now) \ event.arg.failing
             /\ \A m, n \in event.sent : m.chat_id = n.chat_id => m = n
             /\ \A m \in event.sent :
                    Carries(m.text,
                            format_day_schedule(schedule, users[m.chat_id].group,
                                                DayNames[event.arg.weekday + 1]))
        ELSE event.tried = {} /\ event.sent = {}

\* C22 happens: on a Monday at 08:30 both users are due, with different
\* groups; the send to user 1 failed and user 2 got a message for a day
\* that has lessons.
C22_Witness ==
    /\ event.op = "tick"
    /\ event.arg.weekday = 0
    /\ event.arg.now = T0830
    /\ event.arg.failing = {1}
    /\ Due(T0830) = {1, 2}
    /\ users[1].group # users[2].group
    /\ \E m \in event.sent :
           /\ m.chat_id = 2
           /\ get_schedule_for_day(schedule, users[2].group, DayNames[1]) # <<>>

====
